---- MODULE Spec2Model ----
(***************************************************************************)
(* SimpleOS (os_project): the page allocator, the process table with its   *)
(* round-robin loop and syscall dispatcher (src/kernel/kernel.c), and the  *)
(* file/directory catalog (src/fs/filesystem.c).                           *)
(*                                                                         *)
(* A 32-bit bitmap word is the set of its set bit positions (0..31): TLC's *)
(* integers are 32-bit signed and cannot hold 0xFFFFFFFF.  Strings are     *)
(* sequences of one-character strings, so that truncation is computed.     *)
(***************************************************************************)
EXTENDS Integers, Sequences, FiniteSets, TLC

\* ------------------------------------------------------------ constants
MEMORY_START == 1048576
PAGE_SIZE == 4096
MAX_PAGES == 1024
WORD_BITS == 32
MAX_PROCESSES == 10
PROCESS_STACK_SIZE == 4096
SYS_WRITE == 1
SYS_READ == 2
SYS_EXIT == 3
SYS_FORK == 4
SYS_EXEC == 5
RESERVED_PAGES == 4

\* 2^32 / PAGE_SIZE: uint32_t arithmetic counted in pages (2^32 itself is
\* not a TLC integer; PAGE_SIZE divides both MEMORY_START and 2^32).
PAGES_PER_4G == 1048576

\* ---------------------------------------------------------------- bounds
\* The largest syscall number the environment issues (6.. are unknown).
MaxCall == 6
\* SYS_EXIT is issued while fewer than MaxExits other slots are Terminated.
MaxExits == 2
\* create_file is called while next_file_id < MaxFileId, create_directory
\* while next_dir_id < MaxDirId; ids up to these are passed to the deletes.
MaxFileId == 4
MaxDirId == 3
\* The page indices the well-behaved client of the allocator gives back are
\* RESERVED_PAGES .. RESERVED_PAGES + FreeWindow - 1, the first page of the
\* second bitmap word and the last page.
FreeWindow == 2

VARIABLES
    memory_bitmap,    \* kernel.c:29  word index -> set of set bits
    next_pid,         \* kernel.c:30
    processes,        \* kernel.c:41
    current_process,  \* kernel.c:42
    kpc,              \* position of kernel_main (kernel.c:59-84)
    call,             \* the last entry point called, its argument, result, output
    allocated,        \* history: addresses handed out and not given back since
    creations,        \* history: <<slot, pid>> of each successful create_process
    wild_store,       \* history: free_page stored outside memory_bitmap
    visited,          \* history: the cursor after each of the last
                      \* MAX_PROCESSES loop iterations
    file_table,       \* filesystem.c:39
    directory_table,  \* filesystem.c:40
    next_file_id,     \* filesystem.c:42
    next_dir_id,      \* filesystem.c:43
    current_directory,\* filesystem.c:44
    data_offset,      \* filesystem.c:45
    file_data,        \* filesystem.c:41  the runs of bytes stored in it
    fs_hung,          \* a list walk of the file system never ended
    file_ids,         \* history: ids returned by create_file, in call order
    dir_ids,          \* history: ids returned by create_directory, in call order
    deleted_files,    \* history: file ids delete_file returned 0 for
    deleted_dirs,     \* history: directory ids delete_directory returned 0 for
    made              \* history of the lookup specification: <<kind, parent
                      \* directory, stored name>> of each successful create

fs_vars == <<file_table, directory_table, next_file_id, next_dir_id,
             current_directory, data_offset, file_data, fs_hung, file_ids, dir_ids,
             deleted_files, deleted_dirs, made>>

vars == <<memory_bitmap, next_pid, processes, current_process, kpc, call,
          allocated, creations, wild_store, visited, fs_vars>>

kernel_vars == <<next_pid, processes, current_process, kpc, creations,
                 visited>>

\* ------------------------------------------------------------- helpers
Min(S) == CHOOSE x \in S : \A y \in S : x <= y

Words == 0 .. (MAX_PAGES \div WORD_BITS) - 1
Bits == 0 .. WORD_BITS - 1
AllBits == Bits

Call(op, arg, ret, out) == [op |-> op, arg |-> arg, ret |-> ret, out |-> out]
NoCall == Call("none", 0, 0, <<>>)

\* The page index of an address inside the pool, and back.
PageAddr(k) == MEMORY_START + k * PAGE_SIZE
BitSet(bm, k) == (k % WORD_BITS) \in bm[k \div WORD_BITS]
SetPages(bm) == UNION {{i * WORD_BITS + j : j \in bm[i]} : i \in Words}

\* ------------------------------------------------------ MemoryAllocator
\* static storage is zero before init_memory runs
ZeroBitmap == [i \in Words |-> {}]

\* init_memory: every word 0, then word 0 = 0x0000000F
init_memory == [i \in Words |-> IF i = 0 THEN 0 .. RESERVED_PAGES - 1 ELSE {}]

\* allocate_page: the first word that is not 0xFFFFFFFF, the first clear
\* bit j of it; sets the bit and returns the address, or 0.
\* (1 << 31 on a 32-bit int is what every build computes as bit 31.)
allocate_page_nomark(bm) ==
    IF \E i \in Words : bm[i] # AllBits
    THEN LET i == Min({w \in Words : bm[w] # AllBits})
             j == Min(Bits \ bm[i])
         IN [bitmap |-> bm, ret |-> MEMORY_START + ((i * 32 + j) * PAGE_SIZE)]
    ELSE [bitmap |-> bm, ret |-> 0]

allocate_page_short(bm) ==
    IF \E i \in Words : bm[i] # AllBits /\ (Bits \ bm[i]) # {31}
    THEN LET i == Min({w \in Words : bm[w] # AllBits /\ (Bits \ bm[w]) # {31}})
             j == Min(Bits \ bm[i])
         IN [bitmap |-> [bm EXCEPT ![i] = @ \cup {j}],
             ret |-> MEMORY_START + ((i * 32 + j) * PAGE_SIZE)]
    ELSE [bitmap |-> bm, ret |-> 0]

allocate_page_unscaled(bm) ==
    IF \E i \in Words : bm[i] # AllBits
    THEN LET i == Min({w \in Words : bm[w] # AllBits})
             j == Min(Bits \ bm[i])
         IN [bitmap |-> [bm EXCEPT ![i] = @ \cup {j}],
             ret |-> MEMORY_START + (i * 32 + j)]
    ELSE [bitmap |-> bm, ret |-> 0]

allocate_page_high(bm) ==
    IF \E i \in Words : bm[i] # AllBits
    THEN LET i == Min({w \in Words : bm[w] # AllBits})
             j == CHOOSE b \in Bits \ bm[i] : \A c \in Bits \ bm[i] : c <= b
         IN [bitmap |-> [bm EXCEPT ![i] = @ \cup {j}],
             ret |-> MEMORY_START + ((i * 32 + j) * PAGE_SIZE)]
    ELSE [bitmap |-> bm, ret |-> 0]

allocate_page(bm) ==
    IF \E i \in Words : bm[i] # AllBits
    THEN LET i == Min({w \in Words : bm[w] # AllBits})
             j == Min(Bits \ bm[i])
         IN [bitmap |-> [bm EXCEPT ![i] = @ \cup {j}],
             ret |-> MEMORY_START + ((i * 32 + j) * PAGE_SIZE)]
    ELSE [bitmap |-> bm, ret |-> 0]

\* free_page's index arithmetic: page_index = (page - MEMORY_START) / PAGE_SIZE
\* in uint32_t, so an address below MEMORY_START wraps.
page_index(page) == ((page - MEMORY_START) \div PAGE_SIZE) % PAGES_PER_4G
bitmap_index(page) == page_index(page) \div 32
bit_index(page) == page_index(page) % 32
InBitmap(page) == bitmap_index(page) \in Words

\* free_page, for an address whose word lies inside memory_bitmap
free_page_next_bit(bm, page) ==
    [bm EXCEPT ![bitmap_index(page)] = @ \ {(bit_index(page) + 1) % 32}]

free_page(bm, page) ==
    [bm EXCEPT ![bitmap_index(page)] = @ \ {bit_index(page)}]

\* A small nonnegative int with bit b cleared (bit 31 of it is clear already).
ClearBit(n, b) ==
    IF b < 31 /\ (n \div (2 ^ b)) % 2 = 1 THEN n - 2 ^ b ELSE n

\* ------------------------------------------------------- ProcessTable
EmptyName == <<>>
ShellName == <<"s", "h", "e", "l", "l">>
LongName == [i \in 1 .. 33 |-> "x"]
ShellEntry == 8192

\* the copy loop of create_process: at most 31 characters
TruncName(name) == SubSeq(name, 1, IF Len(name) < 31 THEN Len(name) ELSE 31)

ZeroProcess ==
    [pid |-> 0, state |-> 0, stack_ptr |-> 0, code_ptr |-> 0, name |-> EmptyName]

Slots == 0 .. MAX_PROCESSES - 1

init_processes == [i \in Slots |-> ZeroProcess]

\* create_process on the kernel state k = [processes, next_pid, bitmap]:
\* the first slot with pid 0, or -1 with nothing touched.
create_process_samepid(k, name, entry_point) ==
    IF \E i \in Slots : k.processes[i].pid = 0
    THEN LET i == Min({s \in Slots : k.processes[s].pid = 0})
             page == allocate_page(k.bitmap)
         IN [processes |-> [k.processes EXCEPT ![i] =
                 [pid |-> k.next_pid, state |-> 1, code_ptr |-> entry_point,
                  stack_ptr |-> page.ret + PROCESS_STACK_SIZE,
                  name |-> TruncName(name)]],
             next_pid |-> k.next_pid,
             bitmap |-> page.bitmap, slot |-> i, page |-> page.ret,
             ret |-> k.next_pid]
    ELSE [processes |-> k.processes, next_pid |-> k.next_pid,
          bitmap |-> k.bitmap, slot |-> -1, page |-> 0, ret |-> -1]

create_process_eager(k, name, entry_point) ==
    LET page == allocate_page(k.bitmap)
    IN  IF \E i \in Slots : k.processes[i].pid = 0
        THEN LET i == Min({s \in Slots : k.processes[s].pid = 0})
             IN [processes |-> [k.processes EXCEPT ![i] =
                     [pid |-> k.next_pid, state |-> 1, code_ptr |-> entry_point,
                      stack_ptr |-> page.ret + PROCESS_STACK_SIZE,
                      name |-> TruncName(name)]],
                 next_pid |-> k.next_pid + 1,
                 bitmap |-> page.bitmap, slot |-> i, page |-> page.ret,
             ret |-> k.next_pid]
        ELSE [processes |-> k.processes, next_pid |-> k.next_pid,
              bitmap |-> page.bitmap, slot |-> -1, page |-> page.ret, ret |-> -1]

create_process_ready(k, name, entry_point) ==
    IF \E i \in Slots : k.processes[i].pid = 0
    THEN LET i == Min({s \in Slots : k.processes[s].pid = 0})
             page == allocate_page(k.bitmap)
         IN [processes |-> [k.processes EXCEPT ![i] =
                 [pid |-> k.next_pid, state |-> 0, code_ptr |-> entry_point,
                  stack_ptr |-> page.ret + PROCESS_STACK_SIZE,
                  name |-> TruncName(name)]],
             next_pid |-> k.next_pid + 1,
             bitmap |-> page.bitmap, slot |-> i, page |-> page.ret,
             ret |-> k.next_pid]
    ELSE [processes |-> k.processes, next_pid |-> k.next_pid,
          bitmap |-> k.bitmap, slot |-> -1, page |-> 0, ret |-> -1]

create_process_checked(k, name, entry_point) ==
    IF (\E i \in Slots : k.processes[i].pid = 0)
       /\ allocate_page(k.bitmap).ret # 0
    THEN LET i == Min({s \in Slots : k.processes[s].pid = 0})
             page == allocate_page(k.bitmap)
         IN [processes |-> [k.processes EXCEPT ![i] =
                 [pid |-> k.next_pid, state |-> 1, code_ptr |-> entry_point,
                  stack_ptr |-> page.ret + PROCESS_STACK_SIZE,
                  name |-> TruncName(name)]],
             next_pid |-> k.next_pid + 1,
             bitmap |-> page.bitmap, slot |-> i, page |-> page.ret,
             ret |-> k.next_pid]
    ELSE [processes |-> k.processes, next_pid |-> k.next_pid,
          bitmap |-> k.bitmap, slot |-> -1, page |-> 0, ret |-> -1]

create_process(k, name, entry_point) ==
    IF \E i \in Slots : k.processes[i].pid = 0
    THEN LET i == Min({s \in Slots : k.processes[s].pid = 0})
             page == allocate_page(k.bitmap)
         IN [processes |-> [k.processes EXCEPT ![i] =
                 [pid |-> k.next_pid, state |-> 1, code_ptr |-> entry_point,
                  stack_ptr |-> page.ret + PROCESS_STACK_SIZE,
                  name |-> TruncName(name)]],
             next_pid |-> k.next_pid + 1,
             bitmap |-> page.bitmap, slot |-> i, page |-> page.ret,
             ret |-> k.next_pid]
    ELSE [processes |-> k.processes, next_pid |-> k.next_pid,
          bitmap |-> k.bitmap, slot |-> -1, page |-> 0, ret |-> -1]

\* switch_context: the cursor moves to a slot only if it is in 0..9 and runnable
switch_context(procs, cur, new_process) ==
    IF new_process >= 0 /\ new_process < MAX_PROCESSES
       /\ procs[new_process].state = 1
    THEN new_process
    ELSE cur

\* handle_system_call on (processes, current_process): the new process table
\* and what is handed to print_string / print_hex.
handle_system_call_fallthrough(procs, cur, call_number, arg1) ==
    CASE call_number = SYS_WRITE ->
            [processes |-> procs, out |-> <<"text", arg1>>]
      [] call_number = SYS_READ \/ call_number = SYS_EXIT ->
            [processes |-> [procs EXCEPT ![cur].state = 3], out |-> <<>>]
      [] call_number = SYS_FORK -> [processes |-> procs, out |-> <<>>]
      [] call_number = SYS_EXEC -> [processes |-> procs, out |-> <<>>]
      [] OTHER -> [processes |-> procs, out |-> <<"unknown", call_number>>]

handle_system_call_reap(procs, cur, call_number, arg1) ==
    CASE call_number = SYS_WRITE ->
            [processes |-> procs, out |-> <<"text", arg1>>]
      [] call_number = SYS_READ -> [processes |-> procs, out |-> <<>>]
      [] call_number = SYS_EXIT ->
            [processes |-> [procs EXCEPT ![cur] = ZeroProcess], out |-> <<>>]
      [] call_number = SYS_FORK -> [processes |-> procs, out |-> <<>>]
      [] call_number = SYS_EXEC -> [processes |-> procs, out |-> <<>>]
      [] OTHER -> [processes |-> procs, out |-> <<"unknown", call_number>>]

handle_system_call(procs, cur, call_number, arg1) ==
    CASE call_number = SYS_WRITE ->
            [processes |-> procs, out |-> <<"text", arg1>>]
      [] call_number = SYS_READ -> [processes |-> procs, out |-> <<>>]
      [] call_number = SYS_EXIT ->
            [processes |-> [procs EXCEPT ![cur].state = 3], out |-> <<>>]
      [] call_number = SYS_FORK -> [processes |-> procs, out |-> <<>>]
      [] call_number = SYS_EXEC -> [processes |-> procs, out |-> <<>>]
      [] OTHER -> [processes |-> procs, out |-> <<"unknown", call_number>>]

\* --------------------------------------------------------- FileSystem
MAX_FILES == 100
MAX_FILENAME == 32
MAX_FILE_SIZE == 4096
MAX_DIRECTORIES == 50
MAX_PATH_LENGTH == 128
FILE_TYPE_REGULAR == 1
PERM_READ == 1
PERM_WRITE == 2
PERM_EXECUTE == 4
\* 0xFFFFFFFF, the all-ones uint32_t, written as the 32-bit int with the same
\* bits (TLC's integers are 32-bit signed); the ids the model passes in are
\* small and never equal to it.
ALL_ONES == -1

FileSlots == 0 .. MAX_FILES - 1
DirSlots == 0 .. MAX_DIRECTORIES - 1

ZeroFile ==
    [name |-> <<>>, size |-> 0, type |-> 0, permissions |-> 0,
     data_start |-> 0, parent_dir |-> 0, next_file |-> 0]
ZeroDir == [name |-> <<>>, parent_dir |-> 0, first_file |-> 0, next_dir |-> 0]

\* strncpy(dst, name, MAX_FILENAME - 1); dst[MAX_FILENAME - 1] = '\0'
\* file_table and directory_table are kept as their written part: a function
\* on the slots some create has filled (0 .. next id - 1).  Every other slot
\* holds the zeros init_filesystem's memset (or static storage) left there.
File(ft, i) == IF i \in DOMAIN ft THEN ft[i] ELSE ZeroFile
Dir(dt, i) == IF i \in DOMAIN dt THEN dt[i] ELSE ZeroDir
Put(t, i, entry) == [j \in DOMAIN t \cup {i} |-> IF j = i THEN entry ELSE t[j]]

CopyName(name) ==
    SubSeq(name, 1, IF Len(name) < MAX_FILENAME - 1 THEN Len(name)
                    ELSE MAX_FILENAME - 1)

KernelBin == <<"k", "e", "r", "n", "e", "l", ".", "b", "i", "n">>
ShellBin == <<"s", "h", "e", "l", "l", ".", "b", "i", "n">>
InitBin == <<"i", "n", "i", "t", ".", "b", "i", "n">>
RootName == <<"/">>

\* The file system's variables as one value f: [file_table, directory_table,
\* next_file_id, next_dir_id, current_directory, data_offset, file_data].
\* Every operation returns [fs, ret, hang]: the new value, the result, and
\* whether the call never returns (a list walk that runs forever, a memcpy
\* that leaves file_data).
Result(f, ret) == [fs |-> f, ret |-> ret, hang |-> FALSE]
Hang(f) == [fs |-> f, ret |-> 0, hang |-> TRUE]

\* while (table[x].next != 0) x = table[x].next;  a chain without a cycle has
\* at most `fuel` = table size links, so -1 means the loop never ends.
RECURSIVE LastFile(_, _, _)
LastFile(ft, last_file, fuel) ==
    IF File(ft, last_file).next_file = 0 THEN last_file
    ELSE IF fuel = 0 THEN -1
    ELSE LastFile(ft, File(ft, last_file).next_file, fuel - 1)

RECURSIVE LastDir(_, _, _)
LastDir(dt, parent, fuel) ==
    IF Dir(dt, parent).next_dir = 0 THEN parent
    ELSE IF fuel = 0 THEN -1
    ELSE LastDir(dt, Dir(dt, parent).next_dir, fuel - 1)

\* while (current != id && current != 0) { prev = current; current = next; }
\* <<prev, current>> at loop exit, <<-1, -1>> when the loop never ends.
RECURSIVE SeekFile(_, _, _, _, _)
SeekFile(ft, file_id, prev_file, current_file, fuel) ==
    IF current_file = file_id \/ current_file = 0
    THEN <<prev_file, current_file>>
    ELSE IF fuel = 0 THEN <<-1, -1>>
    ELSE SeekFile(ft, file_id, current_file, File(ft, current_file).next_file,
                  fuel - 1)

RECURSIVE SeekDir(_, _, _, _, _)
SeekDir(dt, dir_id, prev_dir, current_dir, fuel) ==
    IF current_dir = dir_id \/ current_dir = 0
    THEN <<prev_dir, current_dir>>
    ELSE IF fuel = 0 THEN <<-1, -1>>
    ELSE SeekDir(dt, dir_id, current_dir, Dir(dt, current_dir).next_dir,
                 fuel - 1)

create_file_reuse(f, name, type, permissions) ==
    IF f.next_file_id >= MAX_FILES THEN Result(f, ALL_ONES)
    ELSE
    LET cleared == {i \in 1 .. f.next_file_id - 1 :
                       File(f.file_table, i) = ZeroFile}
        file_id == IF cleared # {} THEN Min(cleared) ELSE f.next_file_id
        cur == f.current_directory
        entry == [name |-> CopyName(name), size |-> 0, type |-> type,
                  permissions |-> permissions, data_start |-> f.data_offset,
                  parent_dir |-> cur, next_file |-> 0]
        ft1 == Put(f.file_table, file_id, entry)
        g == [f EXCEPT !.next_file_id = IF cleared # {} THEN @ ELSE @ + 1,
                       !.data_offset = @ + MAX_FILE_SIZE]
    IN  IF Dir(f.directory_table, cur).first_file = 0
        THEN Result([g EXCEPT !.file_table = ft1,
                              !.directory_table[cur].first_file = file_id],
                    file_id)
        ELSE LET last_file ==
                     LastFile(ft1, Dir(f.directory_table, cur).first_file, MAX_FILES)
             IN  IF last_file = -1 THEN Hang(f)
                 ELSE Result([g EXCEPT !.file_table =
                                 [ft1 EXCEPT ![last_file].next_file = file_id]],
                             file_id)

create_file_one_more(f, name, type, permissions) ==
    IF f.next_file_id > MAX_FILES THEN Result(f, ALL_ONES)
    ELSE
    LET file_id == f.next_file_id
        cur == f.current_directory
        entry == [name |-> CopyName(name), size |-> 0, type |-> type,
                  permissions |-> permissions, data_start |-> f.data_offset,
                  parent_dir |-> cur, next_file |-> 0]
        ft1 == Put(f.file_table, file_id, entry)
        g == [f EXCEPT !.next_file_id = @ + 1,
                       !.data_offset = @ + MAX_FILE_SIZE]
    IN  IF Dir(f.directory_table, cur).first_file = 0
        THEN Result([g EXCEPT !.file_table = ft1,
                              !.directory_table[cur].first_file = file_id],
                    file_id)
        ELSE LET last_file ==
                     LastFile(ft1, Dir(f.directory_table, cur).first_file, MAX_FILES)
             IN  IF last_file = -1 THEN Hang(f)
                 ELSE Result([g EXCEPT !.file_table =
                                 [ft1 EXCEPT ![last_file].next_file = file_id]],
                             file_id)

\* create_file (lines 87-118)
create_file(f, name, type, permissions) ==
    IF f.next_file_id >= MAX_FILES THEN Result(f, ALL_ONES)
    ELSE
    LET file_id == f.next_file_id
        cur == f.current_directory
        entry == [name |-> CopyName(name), size |-> 0, type |-> type,
                  permissions |-> permissions, data_start |-> f.data_offset,
                  parent_dir |-> cur, next_file |-> 0]
        ft1 == Put(f.file_table, file_id, entry)
        g == [f EXCEPT !.next_file_id = @ + 1,
                       !.data_offset = @ + MAX_FILE_SIZE]
    IN  IF Dir(f.directory_table, cur).first_file = 0
        THEN Result([g EXCEPT !.file_table = ft1,
                              !.directory_table[cur].first_file = file_id],
                    file_id)
        ELSE LET last_file ==
                     LastFile(ft1, Dir(f.directory_table, cur).first_file, MAX_FILES)
             IN  IF last_file = -1 THEN Hang(f)
                 ELSE Result([g EXCEPT !.file_table =
                                 [ft1 EXCEPT ![last_file].next_file = file_id]],
                             file_id)

\* create_directory that links the new directory at the head of the chain
create_directory_head(f, name) ==
    IF f.next_dir_id >= MAX_DIRECTORIES THEN Result(f, ALL_ONES)
    ELSE
    LET dir_id == f.next_dir_id
        cur == f.current_directory
        entry == [name |-> CopyName(name), parent_dir |-> cur,
                  first_file |-> 0, next_dir |-> Dir(f.directory_table, cur).next_dir]
        dt1 == Put(f.directory_table, dir_id, entry)
    IN  Result([f EXCEPT !.next_dir_id = @ + 1,
                         !.directory_table = [dt1 EXCEPT ![cur].next_dir = dir_id]],
               dir_id)

\* create_directory (lines 121-146)
create_directory(f, name) ==
    IF f.next_dir_id >= MAX_DIRECTORIES THEN Result(f, ALL_ONES)
    ELSE
    LET dir_id == f.next_dir_id
        cur == f.current_directory
        entry == [name |-> CopyName(name), parent_dir |-> cur,
                  first_file |-> 0, next_dir |-> 0]
        dt1 == Put(f.directory_table, dir_id, entry)
        g == [f EXCEPT !.next_dir_id = @ + 1]
        parent == Dir(dt1, cur).next_dir
    IN  IF parent = 0
        THEN Result([g EXCEPT !.directory_table =
                        [dt1 EXCEPT ![cur].next_dir = dir_id]], dir_id)
        ELSE LET last == LastDir(dt1, parent, MAX_DIRECTORIES)
             IN  IF last = -1 THEN Hang(f)
                 ELSE Result([g EXCEPT !.directory_table =
                                 [dt1 EXCEPT ![last].next_dir = dir_id]], dir_id)

\* delete_file that clears the entry and leaves the list as it is
delete_file_keep(f, file_id) ==
    IF file_id >= f.next_file_id THEN Result(f, -1)
    ELSE Result([f EXCEPT !.file_table[file_id] = ZeroFile], 0)

\* delete_file (lines 149-176)
delete_file(f, file_id) ==
    IF file_id >= f.next_file_id THEN Result(f, -1)
    ELSE
    LET parent_dir == File(f.file_table, file_id).parent_dir
        at == SeekFile(f.file_table, file_id, 0,
                       Dir(f.directory_table, parent_dir).first_file, MAX_FILES)
        prev_file == at[1]
        current_file == at[2]
        next == File(f.file_table, file_id).next_file
        unlinked ==
            IF current_file # file_id THEN f
            ELSE IF prev_file = 0
            THEN [f EXCEPT !.directory_table[parent_dir].first_file = next]
            ELSE [f EXCEPT !.file_table[prev_file].next_file = next]
    IN  IF current_file = -1 THEN Hang(f)
        ELSE Result([unlinked EXCEPT !.file_table[file_id] = ZeroFile], 0)

delete_directory_any(f, dir_id) ==
    IF dir_id >= f.next_dir_id + 1 THEN Result(f, -1)
    ELSE IF Dir(f.directory_table, dir_id).first_file # 0 THEN Result(f, -2)
    ELSE
    LET parent_dir == Dir(f.directory_table, dir_id).parent_dir
        at == SeekDir(f.directory_table, dir_id, 0,
                      Dir(f.directory_table, parent_dir).next_dir, MAX_DIRECTORIES)
        prev_dir == at[1]
        current_dir == at[2]
        next == Dir(f.directory_table, dir_id).next_dir
        unlinked ==
            IF current_dir # dir_id THEN f
            ELSE IF prev_dir = 0
            THEN [f EXCEPT !.directory_table[parent_dir].next_dir = next]
            ELSE [f EXCEPT !.directory_table[prev_dir].next_dir = next]
    IN  IF current_dir = -1 THEN Hang(f)
        ELSE Result([unlinked EXCEPT !.directory_table[dir_id] = ZeroDir], 0)

delete_directory_force(f, dir_id) ==
    IF dir_id >= f.next_dir_id \/ dir_id = 0 THEN Result(f, -1)
    ELSE
    LET parent_dir == Dir(f.directory_table, dir_id).parent_dir
        at == SeekDir(f.directory_table, dir_id, 0,
                      Dir(f.directory_table, parent_dir).next_dir, MAX_DIRECTORIES)
        prev_dir == at[1]
        current_dir == at[2]
        next == Dir(f.directory_table, dir_id).next_dir
        unlinked ==
            IF current_dir # dir_id THEN f
            ELSE IF prev_dir = 0
            THEN [f EXCEPT !.directory_table[parent_dir].next_dir = next]
            ELSE [f EXCEPT !.directory_table[prev_dir].next_dir = next]
    IN  IF current_dir = -1 THEN Hang(f)
        ELSE Result([unlinked EXCEPT !.directory_table[dir_id] = ZeroDir], 0)

\* delete_directory (lines 179-211)
delete_directory(f, dir_id) ==
    IF dir_id >= f.next_dir_id \/ dir_id = 0 THEN Result(f, -1)
    ELSE IF Dir(f.directory_table, dir_id).first_file # 0 THEN Result(f, -2)
    ELSE
    LET parent_dir == Dir(f.directory_table, dir_id).parent_dir
        at == SeekDir(f.directory_table, dir_id, 0,
                      Dir(f.directory_table, parent_dir).next_dir, MAX_DIRECTORIES)
        prev_dir == at[1]
        current_dir == at[2]
        next == Dir(f.directory_table, dir_id).next_dir
        unlinked ==
            IF current_dir # dir_id THEN f
            ELSE IF prev_dir = 0
            THEN [f EXCEPT !.directory_table[parent_dir].next_dir = next]
            ELSE [f EXCEPT !.directory_table[prev_dir].next_dir = next]
    IN  IF current_dir = -1 THEN Hang(f)
        ELSE Result([unlinked EXCEPT !.directory_table[dir_id] = ZeroDir], 0)

\* set_current_directory (lines 306-310)
set_current_directory(f, dir_id) ==
    IF dir_id < f.next_dir_id THEN [f EXCEPT !.current_directory = dir_id] ELSE f

\* The loop of list_directory (lines 286-291) and find_file: the file ids
\* met from file_id on, following next_file until 0.
RECURSIVE FilesFrom(_, _, _)
FilesFrom(ft, file_id, fuel) ==
    IF file_id = 0 \/ fuel = 0 THEN <<>>
    ELSE <<file_id>> \o FilesFrom(ft, File(ft, file_id).next_file, fuel - 1)
FileList(f, dir_id) ==
    FilesFrom(f.file_table, Dir(f.directory_table, dir_id).first_file, MAX_FILES)

\* the directory ids met from dir_id on, following next_dir until 0
RECURSIVE DirsFrom(_, _, _)
DirsFrom(dt, dir_id, fuel) ==
    IF dir_id = 0 \/ fuel = 0 THEN <<>>
    ELSE <<dir_id>> \o DirsFrom(dt, Dir(dt, dir_id).next_dir, fuel - 1)
DirList(f, dir_id) ==
    DirsFrom(f.directory_table, Dir(f.directory_table, dir_id).next_dir,
             MAX_DIRECTORIES)

\* a result no call returns: the loop of the call never ends
NEVER == -2

\* while (file_id != 0) { if (strcmp(..) == 0) return file_id; file_id = next; }
RECURSIVE FindFileFrom(_, _, _, _)
FindFileFrom(ft, name, file_id, fuel) ==
    IF file_id = 0 THEN ALL_ONES
    ELSE IF File(ft, file_id).name = name THEN file_id
    ELSE IF fuel = 0 THEN NEVER
    ELSE FindFileFrom(ft, name, File(ft, file_id).next_file, fuel - 1)

RECURSIVE FindDirFrom(_, _, _, _)
FindDirFrom(dt, name, dir_id, fuel) ==
    IF dir_id = 0 THEN ALL_ONES
    ELSE IF Dir(dt, dir_id).name = name THEN dir_id
    ELSE IF fuel = 0 THEN NEVER
    ELSE FindDirFrom(dt, name, Dir(dt, dir_id).next_dir, fuel - 1)

\* find_file (lines 214-225); strcmp compares the stored name with the whole
\* of `name`
find_file(f, name, parent_dir) ==
    FindFileFrom(f.file_table, name,
                 Dir(f.directory_table, parent_dir).first_file, MAX_FILES)

\* find_directory (lines 228-239)
find_directory(f, name, parent_dir) ==
    FindDirFrom(f.directory_table, name,
                Dir(f.directory_table, parent_dir).next_dir, MAX_DIRECTORIES)

\* The loop of get_path_string: path becomes "/" name(current) path and
\* current its parent, until current is 0.  temp_path and path hold
\* MAX_PATH_LENGTH chars with the closing NUL: a longer string is written
\* past their end, which [over |-> TRUE] reports.
PathResult(path, hang, over) == [ret |-> path, hang |-> hang, over |-> over]

RECURSIVE PathReversed(_, _, _, _)
PathReversed(dt, current, path, fuel) ==
    IF current = 0 THEN PathResult(path, FALSE, FALSE)
    ELSE IF fuel = 0 THEN PathResult(path, TRUE, FALSE)
    ELSE LET temp_path == path \o <<"/">> \o Dir(dt, current).name
         IN  IF Len(temp_path) >= MAX_PATH_LENGTH
             THEN PathResult(temp_path, FALSE, TRUE)
             ELSE PathReversed(dt, Dir(dt, current).parent_dir, temp_path,
                               fuel - 1)

RECURSIVE PathFrom(_, _, _, _)
PathFrom(dt, current, path, fuel) ==
    IF current = 0 THEN PathResult(path, FALSE, FALSE)
    ELSE IF fuel = 0 THEN PathResult(path, TRUE, FALSE)
    ELSE LET temp_path == <<"/">> \o Dir(dt, current).name \o path
         IN  IF Len(temp_path) >= MAX_PATH_LENGTH
             THEN PathResult(temp_path, FALSE, TRUE)
             ELSE PathFrom(dt, Dir(dt, current).parent_dir, temp_path,
                           fuel - 1)

get_path_string_reversed(f, dir_id) ==
    LET r == PathReversed(f.directory_table, dir_id, <<>>, MAX_DIRECTORIES)
    IN  IF r.ret = <<>> THEN PathResult(<<"/">>, r.hang, r.over) ELSE r

\* get_path_string (lines 313-333)
get_path_string(f, dir_id) ==
    LET r == PathFrom(f.directory_table, dir_id, <<>>, MAX_DIRECTORIES)
    IN  IF r.ret = <<>> THEN PathResult(<<"/">>, r.hang, r.over) ELSE r

\* ---- uint32_t arithmetic.  A uint32_t is written as the 32-bit int with
\* the same bits, so 0x80000000 .. 0xFFFFFFFF are the negative ints; sums and
\* differences are taken on 16-bit halves and wrap modulo 2^32.
HALF == 65536
Lo16(a) == a % HALF
Hi16(a) == ((a - Lo16(a)) \div HALF) % HALF
U32(hi, lo) == (IF hi >= HALF \div 2 THEN hi - HALF ELSE hi) * HALF + lo
UAdd(a, b) ==
    LET lo == Lo16(a) + Lo16(b)
    IN  U32((Hi16(a) + Hi16(b) + lo \div HALF) % HALF, lo % HALF)
USub(a, b) ==
    LET lo == Lo16(a) - Lo16(b)
    IN  U32((Hi16(a) - Hi16(b) - (IF lo < 0 THEN 1 ELSE 0)) % HALF, lo % HALF)
\* a < b as unsigned values
ULess(a, b) == IF (a >= 0) = (b >= 0) THEN a < b ELSE a >= 0

\* ---- file_data (line 41): MAX_FILES * MAX_FILE_SIZE bytes.  A caller's
\* buffer is named by a small number; its byte i is Byte(b, i), never 0 and
\* different from one position to the next.  The array is kept as the runs
\* of bytes the memcpy calls stored: [start, len, data, from] says that the
\* bytes at start .. start + len - 1 are bytes from, from + 1, .. of buffer
\* `data`; an address in no run still holds its initial 0.
FILE_DATA_SIZE == MAX_FILES * MAX_FILE_SIZE
Byte(b, i) == ((7 * b + i) % 255) + 1
Run(start, len, data, from) ==
    [start |-> start, len |-> len, data |-> data, from |-> from]
\* the part of run r at the addresses lo .. hi - 1
Clip(r, lo, hi) ==
    LET a == IF r.start > lo THEN r.start ELSE lo
        b == IF r.start + r.len < hi THEN r.start + r.len ELSE hi
    IN  IF a < b THEN {Run(a, b - a, r.data, r.from + (a - r.start))} ELSE {}
\* run q continues run r
Joins(r, q) ==
    /\ q.start = r.start + r.len
    /\ q.data = r.data
    /\ q.from = r.from + r.len
\* the same bytes, written with as few runs as possible
RECURSIVE Coalesce(_)
Coalesce(runs) ==
    IF \E r \in runs, q \in runs : Joins(r, q)
    THEN LET p == CHOOSE p \in runs \X runs : Joins(p[1], p[2])
         IN  Coalesce((runs \ {p[1], p[2]})
                      \cup {Run(p[1].start, p[1].len + p[2].len, p[1].data,
                                p[1].from)})
    ELSE runs
\* start .. start + n - 1 lies inside the array
InData(start, n) ==
    /\ 0 <= start /\ start <= FILE_DATA_SIZE
    /\ 0 < n /\ n <= FILE_DATA_SIZE - start

\* memcpy(&file_data[start], data, n)
StoreBytes(fd, start, data, n) ==
    Coalesce(UNION {Clip(r, 0, start) \cup Clip(r, start + n, FILE_DATA_SIZE) :
                       r \in fd}
             \cup {Run(start, n, data, 0)})
\* memcpy(buffer, &file_data[start], n): what arrives in buffer[0 .. n - 1],
\* as runs over the buffer's positions
LoadBytes(fd, start, n) ==
    {Run(c.start - start, c.len, c.data, c.from) :
        c \in UNION {Clip(r, start, start + n) : r \in fd}}

read_file_flat(f, file_id, offset, size) ==
    IF ~ULess(file_id, f.next_file_id)
    THEN [ret |-> -1, out |-> {}, hang |-> FALSE]
    ELSE
    LET file == File(f.file_table, file_id)
        n == IF ULess(file.size, UAdd(offset, size))
             THEN USub(file.size, offset) ELSE size
    IN  IF n = 0 THEN [ret |-> 0, out |-> {}, hang |-> FALSE]
        ELSE IF ~InData(offset, n)
        THEN [ret |-> 0, out |-> {}, hang |-> TRUE]
        ELSE [ret |-> n, out |-> LoadBytes(f.file_data, offset, n),
              hang |-> FALSE]

\* read_file (lines 242-256): [ret, out, hang], out being the bytes memcpy
\* put into the caller's buffer
read_file(f, file_id, offset, size) ==
    IF ~ULess(file_id, f.next_file_id)
    THEN [ret |-> -1, out |-> {}, hang |-> FALSE]
    ELSE
    LET file == File(f.file_table, file_id)
        n == IF ULess(file.size, UAdd(offset, size))
             THEN USub(file.size, offset) ELSE size
        start == UAdd(file.data_start, offset)
    IN  IF n = 0 THEN [ret |-> 0, out |-> {}, hang |-> FALSE]
        ELSE IF ~InData(start, n)
        THEN [ret |-> 0, out |-> {}, hang |-> TRUE]
        ELSE [ret |-> n, out |-> LoadBytes(f.file_data, start, n),
              hang |-> FALSE]

write_file_noclamp(f, file_id, data, offset, size) ==
    IF ~ULess(file_id, f.next_file_id) THEN Result(f, -1)
    ELSE
    LET file == File(f.file_table, file_id)
        start == UAdd(file.data_start, offset)
        end == UAdd(offset, size)
        grown == IF ULess(file.size, end)
                 THEN [f EXCEPT !.file_table[file_id].size = end] ELSE f
    IN  IF size = 0 THEN Result(f, 0)
        ELSE IF ~InData(start, size) THEN Hang(f)
        ELSE Result([grown EXCEPT
                        !.file_data = StoreBytes(@, start, data, size)], size)

\* write_file (lines 259-276)
write_file(f, file_id, data, offset, size) ==
    IF ~ULess(file_id, f.next_file_id) THEN Result(f, -1)
    ELSE
    LET file == File(f.file_table, file_id)
        n == IF ULess(MAX_FILE_SIZE, UAdd(offset, size))
             THEN USub(MAX_FILE_SIZE, offset) ELSE size
        start == UAdd(file.data_start, offset)
        end == UAdd(offset, n)
        grown == IF ULess(file.size, end)
                 THEN [f EXCEPT !.file_table[file_id].size = end] ELSE f
    IN  IF n = 0 THEN Result(f, 0)
        ELSE IF ~InData(start, n) THEN Hang(f)
        ELSE Result([grown EXCEPT
                        !.file_data = StoreBytes(@, start, data, n)], n)

\* zeroed static storage, before init_filesystem
ZeroFs ==
    [file_table |-> <<>>, directory_table |-> <<>>,
     next_file_id |-> 0, next_dir_id |-> 0, current_directory |-> 0,
     data_offset |-> 0, file_data |-> {}]

\* init_filesystem (lines 63-84): the root, then the three default files
init_filesystem ==
    LET root == [ZeroFs EXCEPT !.directory_table =
                     Put(<<>>, 0, [name |-> RootName, parent_dir |-> 0,
                                   first_file |-> 0, next_dir |-> 0]),
                 !.next_dir_id = 1]
        exec == 5
        f1 == create_file(root, KernelBin, FILE_TYPE_REGULAR, exec).fs
        f2 == create_file(f1, ShellBin, FILE_TYPE_REGULAR, exec).fs
    IN  create_file(f2, InitBin, FILE_TYPE_REGULAR, exec).fs

\* the file system's variables hold the value f
FsIs(f) ==
    /\ file_table = f.file_table
    /\ directory_table = f.directory_table
    /\ next_file_id = f.next_file_id
    /\ next_dir_id = f.next_dir_id
    /\ current_directory = f.current_directory
    /\ data_offset = f.data_offset
    /\ file_data = f.file_data

FsState ==
    [file_table |-> file_table, directory_table |-> directory_table,
     next_file_id |-> next_file_id, next_dir_id |-> next_dir_id,
     current_directory |-> current_directory, data_offset |-> data_offset,
     file_data |-> file_data]

\* ------------------------------------------------ the allocator on its own
\* The state once init_memory has run; the rest is zeroed static storage.
InitMem ==
    /\ memory_bitmap = init_memory
    /\ next_pid = 1
    /\ processes = init_processes
    /\ current_process = 0
    /\ kpc = "memory"
    /\ call = NoCall
    /\ allocated = {}
    /\ creations = <<>>
    /\ wild_store = FALSE
    /\ visited = <<>>
    /\ FsIs(ZeroFs)
    /\ fs_hung = FALSE
    /\ file_ids = <<>>
    /\ dir_ids = <<>>
    /\ deleted_files = {}
    /\ deleted_dirs = {}
    /\ made = {}

AllocatePage ==
    LET r == allocate_page(memory_bitmap)
    IN  /\ memory_bitmap' = r.bitmap
        /\ call' = Call("allocate_page", 0, r.ret, <<>>)
        /\ allocated' = IF r.ret # 0 THEN allocated \cup {r.ret} ELSE allocated
        /\ UNCHANGED <<kernel_vars, wild_store, fs_vars>>

\* The addresses a well-behaved client gives back: pages it holds.
ClientFrees ==
    {PageAddr(k) : k \in (RESERVED_PAGES .. RESERVED_PAGES + FreeWindow - 1)
                         \cup {WORD_BITS, MAX_PAGES - 1}}

FreePage(page) ==
    /\ page \in allocated
    /\ memory_bitmap' = free_page(memory_bitmap, page)
    /\ call' = Call("free_page", page, 0, <<>>)
    /\ allocated' = allocated \ {page}
    /\ UNCHANGED <<kernel_vars, wild_store, fs_vars>>

NextMem == AllocatePage \/ \E page \in ClientFrees : FreePage(page)

SpecMem == InitMem /\ [][NextMem]_vars

\* free_page with any address: reserved pages, pages never handed out,
\* unaligned addresses, addresses outside the pool.
AnyFrees ==
    {PageAddr(RESERVED_PAGES - 1), PageAddr(RESERVED_PAGES) + 1,
     0, PageAddr(MAX_PAGES)}

FreePageInPool(page) ==
    /\ InBitmap(page)
    /\ memory_bitmap' = free_page(memory_bitmap, page)
    /\ call' = Call("free_page", page, 0, <<>>)
    /\ allocated' = allocated \ {page}
    /\ UNCHANGED <<kernel_vars, wild_store, fs_vars>>

\* bitmap_index >= MAX_PAGES / 32: the store lands outside memory_bitmap
\* (undefined behaviour).  memory_bitmap keeps its value; the word hit may be
\* none of the modelled objects, or one of the statics beside the bitmap.
FreePageOutside(page) ==
    /\ ~InBitmap(page)
    /\ wild_store' = TRUE
    /\ call' = Call("free_page", page, 0, <<>>)
    /\ \/ UNCHANGED <<next_pid, current_process>>
       \/ /\ next_pid' = ClearBit(next_pid, bit_index(page))
          /\ UNCHANGED current_process
       \/ /\ current_process' = ClearBit(current_process, bit_index(page))
          /\ UNCHANGED next_pid
    /\ UNCHANGED <<memory_bitmap, allocated, processes, kpc, creations,
                   visited, fs_vars>>

NextMemAny ==
    \/ AllocatePage
    \/ \E page \in AnyFrees : FreePageInPool(page)
    \/ \E page \in AnyFrees : FreePageOutside(page)

SpecMemAny == InitMem /\ [][NextMemAny]_vars

\* ------------------------------------------------------------ the kernel
\* kernel_main from its first line: static storage is zero, next_pid is 1.
InitKernel ==
    /\ memory_bitmap = ZeroBitmap
    /\ next_pid = 1
    /\ processes = [i \in Slots |-> ZeroProcess]
    /\ current_process = 0
    /\ kpc = "start"
    /\ call = NoCall
    /\ allocated = {}
    /\ creations = <<>>
    /\ wild_store = FALSE
    /\ visited = <<>>
    /\ FsIs(ZeroFs)
    /\ fs_hung = FALSE
    /\ file_ids = <<>>
    /\ dir_ids = <<>>
    /\ deleted_files = {}
    /\ deleted_dirs = {}
    /\ made = {}

KInitMemory ==
    /\ kpc = "start"
    /\ memory_bitmap' = init_memory
    /\ kpc' = "memory"
    /\ call' = Call("init_memory", 0, 0, <<>>)
    /\ UNCHANGED <<next_pid, processes, current_process, allocated, creations,
                   wild_store, visited, fs_vars>>

KInitProcesses ==
    /\ kpc = "memory"
    /\ processes' = init_processes
    /\ kpc' = "processes"
    /\ call' = Call("init_processes", 0, 0, <<>>)
    /\ UNCHANGED <<memory_bitmap, next_pid, current_process, allocated,
                   creations, wild_store, visited, fs_vars>>

KernelState == [processes |-> processes, next_pid |-> next_pid,
                bitmap |-> memory_bitmap]

DoCreateProcess(name, entry_point) ==
    LET r == create_process(KernelState, name, entry_point)
    IN  /\ processes' = r.processes
        /\ next_pid' = r.next_pid
        /\ memory_bitmap' = r.bitmap
        /\ call' = Call("create_process", entry_point, r.ret, <<>>)
        /\ allocated' = IF r.page # 0 THEN allocated \cup {r.page} ELSE allocated
        /\ creations' = IF r.ret # -1 THEN Append(creations, <<r.slot, r.ret>>)
                        ELSE creations
        /\ UNCHANGED <<current_process, wild_store, visited, fs_vars>>

\* kernel_main line 70: create_process("shell", 0x2000), then the loop
KCreateShell ==
    /\ kpc = "processes"
    /\ kpc' = "loop"
    /\ DoCreateProcess(ShellName, ShellEntry)

\* the last n elements of q
LastOf(q, n) == IF Len(q) <= n THEN q ELSE SubSeq(q, Len(q) - n + 1, Len(q))

KLoopRunnableOnly ==
    /\ kpc = "loop"
    /\ LET n == (current_process + 1) % MAX_PROCESSES
       IN  /\ current_process' = switch_context(processes, current_process, n)
           /\ visited' = LastOf(Append(visited, current_process'), MAX_PROCESSES)
    /\ call' = Call("schedule", 0, 0, <<>>)
    /\ UNCHANGED <<memory_bitmap, next_pid, processes, kpc, allocated,
                   creations, wild_store, fs_vars>>

\* one iteration of the main loop (lines 76-83)
KLoop ==
    /\ kpc = "loop"
    /\ LET n == (current_process + 1) % MAX_PROCESSES
       IN  /\ current_process' = IF processes[n].state = 1
                                 THEN switch_context(processes, n, n)
                                 ELSE n
           /\ visited' = LastOf(Append(visited, current_process'), MAX_PROCESSES)
    /\ call' = Call("schedule", 0, 0, <<>>)
    /\ UNCHANGED <<memory_bitmap, next_pid, processes, kpc, allocated,
                   creations, wild_store, fs_vars>>

\* what the rest of the system asks of the kernel once the loop runs
ProcNames == {LongName}
Entries == {ShellEntry}
Texts == {1}
CallNumbers == 0 .. MaxCall

CreateProcess(name, entry_point) ==
    /\ kpc = "loop"
    /\ DoCreateProcess(name, entry_point)
    /\ UNCHANGED kpc

SystemCall(call_number, arg1) ==
    /\ kpc = "loop"
    /\ call_number = SYS_EXIT =>
          Cardinality({i \in Slots \ {current_process} :
                          processes[i].state = 3}) < MaxExits
    /\ LET r == handle_system_call(processes, current_process, call_number, arg1)
       IN  /\ processes' = r.processes
           /\ call' = Call("syscall", call_number, 0, r.out)
    /\ UNCHANGED <<memory_bitmap, next_pid, current_process, kpc, allocated,
                   creations, wild_store, visited, fs_vars>>

NextKernel ==
    \/ KInitMemory
    \/ KInitProcesses
    \/ KCreateShell
    \/ KLoop
    \/ \E name \in ProcNames, entry_point \in Entries :
          CreateProcess(name, entry_point)
    \/ \E call_number \in CallNumbers, arg1 \in Texts :
          SystemCall(call_number, arg1)

SpecKernel == InitKernel /\ [][NextKernel]_vars

\* ------------------------------------------- the kernel with its pool used up
\* Once the loop runs, the rest of the system takes pages with allocate_page,
\* one call at a time, and processes are created when no page is left.
PoolExhausted == \A i \in Words : memory_bitmap[i] = AllBits

TakePage == kpc = "loop" /\ AllocatePage

CreateProcessExhausted(name, entry_point) ==
    /\ kpc = "loop"
    /\ PoolExhausted
    /\ DoCreateProcess(name, entry_point)
    /\ UNCHANGED kpc

NextKernelPool ==
    \/ KInitMemory
    \/ KInitProcesses
    \/ KCreateShell
    \/ TakePage
    \/ \E name \in ProcNames, entry_point \in Entries :
          CreateProcessExhausted(name, entry_point)

SpecKernelPool == InitKernel /\ [][NextKernelPool]_vars

\* -------------------------------------------------------- the file system
\* the state init_filesystem leaves
InitFs ==
    /\ memory_bitmap = ZeroBitmap
    /\ next_pid = 1
    /\ processes = [i \in Slots |-> ZeroProcess]
    /\ current_process = 0
    /\ kpc = "start"
    /\ call = NoCall
    /\ allocated = {}
    /\ creations = <<>>
    /\ wild_store = FALSE
    /\ visited = <<>>
    /\ FsIs(init_filesystem)
    /\ fs_hung = FALSE
    /\ file_ids = <<0, 1, 2>>
    /\ dir_ids = <<>>
    /\ deleted_files = {}
    /\ deleted_dirs = {}
    /\ made = {<<"file", 0, KernelBin>>, <<"file", 0, ShellBin>>,
               <<"file", 0, InitBin>>}

non_fs_vars == <<memory_bitmap, next_pid, processes, current_process, kpc,
                 allocated, creations, wild_store, visited>>

\* the call returned r, leaving `out` with the caller: the variables take
\* r.fs; a call that never returns leaves the system hung
FsCall(op, arg, r, out) ==
    /\ ~fs_hung
    /\ IF r.hang
       THEN /\ fs_hung' = TRUE
            /\ call' = Call(op, arg, 0, <<>>)
            /\ UNCHANGED <<file_table, directory_table, next_file_id,
                           next_dir_id, current_directory, data_offset,
                           file_data>>
       ELSE /\ fs_hung' = FALSE
            /\ call' = Call(op, arg, r.ret, out)
            /\ file_table' = r.fs.file_table
            /\ directory_table' = r.fs.directory_table
            /\ next_file_id' = r.fs.next_file_id
            /\ next_dir_id' = r.fs.next_dir_id
            /\ current_directory' = r.fs.current_directory
            /\ data_offset' = r.fs.data_offset
            /\ file_data' = r.fs.file_data
    /\ UNCHANGED non_fs_vars

FsStep(op, arg, r) == FsCall(op, arg, r, <<>>)

FileNames == {LongName}
DirNames == {<<"e", "t", "c">>}
FsPerms == {PERM_READ + PERM_WRITE}

CreateFileCall(name, type, permissions) ==
    LET r == create_file(FsState, name, type, permissions)
    IN  /\ FsStep("create_file", 0, r)
        /\ file_ids' = IF ~r.hang /\ r.ret # ALL_ONES
                       THEN Append(file_ids, r.ret) ELSE file_ids
        /\ UNCHANGED <<dir_ids, deleted_files, deleted_dirs>>

CreateDirectoryCall(name) ==
    LET r == create_directory(FsState, name)
    IN  /\ FsStep("create_directory", 0, r)
        /\ dir_ids' = IF ~r.hang /\ r.ret # ALL_ONES
                      THEN Append(dir_ids, r.ret) ELSE dir_ids
        /\ UNCHANGED <<file_ids, deleted_files, deleted_dirs>>

\* the creates of the bounded specifications
CreateFileStep(name, type, permissions) ==
    next_file_id < MaxFileId /\ CreateFileCall(name, type, permissions)

CreateDirectoryStep(name) ==
    next_dir_id < MaxDirId /\ CreateDirectoryCall(name)

CreateFile(name, type, permissions) ==
    CreateFileStep(name, type, permissions) /\ UNCHANGED made

CreateDirectory(name) == CreateDirectoryStep(name) /\ UNCHANGED made

DeleteFile(file_id) ==
    LET r == delete_file(FsState, file_id)
    IN  /\ FsStep("delete_file", file_id, r)
        /\ deleted_files' = IF ~r.hang /\ r.ret = 0
                            THEN deleted_files \cup {file_id} ELSE deleted_files
        /\ UNCHANGED <<file_ids, dir_ids, deleted_dirs, made>>

DeleteDirectory(dir_id) ==
    LET r == delete_directory(FsState, dir_id)
    IN  /\ FsStep("delete_directory", dir_id, r)
        /\ deleted_dirs' = IF ~r.hang /\ r.ret = 0
                           THEN deleted_dirs \cup {dir_id} ELSE deleted_dirs
        /\ UNCHANGED <<file_ids, dir_ids, deleted_files, made>>

SetCurrentDirectory(dir_id) ==
    /\ FsStep("set_current_directory", dir_id,
              Result(set_current_directory(FsState, dir_id), 0))
    /\ UNCHANGED <<file_ids, dir_ids, deleted_files, deleted_dirs, made>>

NextFs ==
    \/ \E name \in FileNames, permissions \in FsPerms :
          CreateFile(name, FILE_TYPE_REGULAR, permissions)
    \/ \E name \in DirNames : CreateDirectory(name)
    \/ \E file_id \in 0 .. MaxFileId : DeleteFile(file_id)
    \/ \E dir_id \in 0 .. MaxDirId : DeleteDirectory(dir_id)
    \/ \E dir_id \in 0 .. MaxDirId : SetCurrentDirectory(dir_id)

SpecFs == InitFs /\ [][NextFs]_vars

\* ------------------------------------------------------ lookups by name
\* The creates, remembering under which directory and with which stored name
\* each entry was made.
NotedCreateFile(name, type, permissions) ==
    /\ CreateFileStep(name, type, permissions)
    /\ made' = IF ~fs_hung' /\ call'.ret # ALL_ONES
               THEN made \cup {<<"file", current_directory, CopyName(name)>>}
               ELSE made

NotedCreateDirectory(name) ==
    /\ CreateDirectoryStep(name)
    /\ made' = IF ~fs_hung' /\ call'.ret # ALL_ONES
               THEN made \cup {<<"dir", current_directory, CopyName(name)>>}
               ELSE made

\* call.out of a lookup is the name looked for
Lookup(op, name, parent_dir, ret) ==
    /\ FsCall(op, parent_dir,
              [fs |-> FsState, ret |-> ret, hang |-> ret = NEVER], name)
    /\ UNCHANGED <<file_ids, dir_ids, deleted_files, deleted_dirs, made>>

FindFile(name, parent_dir) ==
    Lookup("find_file", name, parent_dir, find_file(FsState, name, parent_dir))

FindDirectory(name, parent_dir) ==
    Lookup("find_directory", name, parent_dir,
           find_directory(FsState, name, parent_dir))

\* the names looked for: stored names, a name longer than any stored name
LookupNames == {ShellBin, CopyName(LongName), LongName, <<"e", "t", "c">>}

NextFsFind ==
    \/ \E name \in FileNames, permissions \in FsPerms :
          NotedCreateFile(name, FILE_TYPE_REGULAR, permissions)
    \/ \E name \in DirNames : NotedCreateDirectory(name)
    \/ \E file_id \in 0 .. MaxFileId : DeleteFile(file_id)
    \/ \E dir_id \in 0 .. MaxDirId : DeleteDirectory(dir_id)
    \/ \E dir_id \in 0 .. MaxDirId : SetCurrentDirectory(dir_id)
    \/ \E name \in LookupNames, parent_dir \in 0 .. MaxDirId - 1 :
          FindFile(name, parent_dir)
    \/ \E name \in LookupNames, parent_dir \in 0 .. MaxDirId - 1 :
          FindDirectory(name, parent_dir)

SpecFsFind == InitFs /\ [][NextFsFind]_vars

\* ------------------------------------------------------------ path strings
\* directory names: a short one and one longer than MAX_FILENAME - 1
PathNames == {<<"e", "t", "c">>, LongName}

\* call.out of get_path_string is the string returned.  A string written past
\* the end of the buffers is undefined behaviour: the call either never
\* returns or returns the whole string.
GetPathString(dir_id) ==
    LET r == get_path_string(FsState, dir_id)
    IN  /\ \E stops \in (IF r.over THEN {TRUE, FALSE} ELSE {r.hang}) :
              FsCall("get_path_string", dir_id,
                     [fs |-> FsState, ret |-> 0, hang |-> stops], r.ret)
        /\ UNCHANGED <<file_ids, dir_ids, deleted_files, deleted_dirs, made>>

NextFsPath ==
    \/ \E name \in PathNames : CreateDirectory(name)
    \/ \E dir_id \in 0 .. MaxDirId : DeleteDirectory(dir_id)
    \/ \E dir_id \in 0 .. MaxDirId : SetCurrentDirectory(dir_id)
    \/ \E dir_id \in 0 .. MaxDirId - 1 : GetPathString(dir_id)

SpecFsPath == InitFs /\ [][NextFsPath]_vars

\* ------------------------------------------------------- filling the tables
\* create_file and create_directory are called until the tables are full and
\* beyond, all in the root; the deletes are given the last id of each table.
FillFile(name, type, permissions) ==
    CreateFileCall(name, type, permissions) /\ UNCHANGED made

FillDirectory(name) == CreateDirectoryCall(name) /\ UNCHANGED made

NextFsFill ==
    \/ \E name \in DirNames, permissions \in FsPerms :
          FillFile(name, FILE_TYPE_REGULAR, permissions)
    \/ \E name \in DirNames : FillDirectory(name)
    \/ DeleteFile(MAX_FILES - 1)
    \/ DeleteDirectory(MAX_DIRECTORIES - 1)

SpecFsFill == InitFs /\ [][NextFsFill]_vars

\* ------------------------------------------- file contents: read and write
\* The ids handed to read_file, write_file and delete_file here: a default
\* file, the first id create_file gives out, and an id never given out.
DataIds == {1, 3, MaxFileId}
\* caller's buffers (see Byte), offsets and lengths
Bufs == {1, 2}
DataOffsets == {0}
DataSizes == {2, MAX_FILE_SIZE, MAX_FILE_SIZE + 1}

\* call.out of a write_file is <<data, offset, size>>
WriteFile(file_id, data, offset, size) ==
    /\ FsCall("write_file", file_id, write_file(FsState, file_id, data, offset, size),
              <<data, offset, size>>)
    /\ UNCHANGED <<file_ids, dir_ids, deleted_files, deleted_dirs, made>>

\* call.out of a read_file is <<offset, size, ret, bytes>>: the bytes that
\* arrived in the caller's buffer (runs over its positions)
ReadFile(file_id, offset, size) ==
    LET r == read_file(FsState, file_id, offset, size)
    IN  /\ FsCall("read_file", file_id,
                  [fs |-> FsState, ret |-> r.ret, hang |-> r.hang],
                  <<offset, size, r.ret, r.out>>)
        /\ UNCHANGED <<file_ids, dir_ids, deleted_files, deleted_dirs, made>>

NextFsData ==
    \/ \E name \in FileNames, permissions \in FsPerms :
          CreateFile(name, FILE_TYPE_REGULAR, permissions)
    \/ \E file_id \in DataIds : DeleteFile(file_id)
    \/ \E file_id \in DataIds, data \in Bufs, offset \in DataOffsets,
          size \in DataSizes : WriteFile(file_id, data, offset, size)
    \/ \E file_id \in DataIds, offset \in DataOffsets, size \in DataSizes :
          ReadFile(file_id, offset, size)

SpecFsData == InitFs /\ [][NextFsData]_vars

\* ----------------------------------- file contents: any offset and size
\* A memcpy of n bytes at file_data[start] that leaves the array is undefined
\* behaviour.  The call may never return; or the copy is done and the call
\* returns, the bytes that fall inside the array being stored there and the
\* others landing on whatever lies beside it.  `start` counts from file_data
\* as a signed distance (an index of 2^31 or more is an address below the
\* array when pointers are 32 bits wide); n of 2^31 or more is written as a
\* negative int like every uint32_t here.
INT_MIN == -2147483647 - 1
CopyLo(start) ==
    IF start < 0 THEN 0
    ELSE IF start > FILE_DATA_SIZE THEN FILE_DATA_SIZE ELSE start
CopyHi(start, n) ==
    IF n >= 0
    THEN IF start < 0
         THEN (IF start + n < 0 THEN 0
               ELSE IF start + n > FILE_DATA_SIZE THEN FILE_DATA_SIZE
               ELSE start + n)
         ELSE (IF start > FILE_DATA_SIZE \/ n > FILE_DATA_SIZE - start
               THEN FILE_DATA_SIZE ELSE start + n)
    ELSE IF /\ start < 0
            /\ start - INT_MIN < FILE_DATA_SIZE
            /\ n - INT_MIN < FILE_DATA_SIZE - (start - INT_MIN)
         THEN (start - INT_MIN) + (n - INT_MIN)
         ELSE FILE_DATA_SIZE

\* the bytes from, from + 1, .. of buffer `data` stored at lo .. hi - 1
StoreBytesAt(fd, lo, hi, data, from) ==
    IF lo >= hi THEN fd
    ELSE Coalesce(UNION {Clip(r, 0, lo) \cup Clip(r, hi, FILE_DATA_SIZE) :
                            r \in fd}
                  \cup {Run(lo, hi - lo, data, from)})

\* four bytes of the caller's buffer read as a uint32_t
WildWord(data) ==
    Byte(data, 0) + 256 * Byte(data, 1) + 65536 * Byte(data, 2)
        + 16777216 * Byte(data, 3)

\* write_file (lines 259-276) when its memcpy leaves file_data and returns:
\* the part inside the array is stored, and lines 270-275 run as written
write_file_wild(f, file_id, data, offset, size) ==
    LET file == File(f.file_table, file_id)
        n == IF ULess(MAX_FILE_SIZE, UAdd(offset, size))
             THEN USub(MAX_FILE_SIZE, offset) ELSE size
        start == UAdd(file.data_start, offset)
        end == UAdd(offset, n)
        grown == IF ULess(file.size, end)
                 THEN [f EXCEPT !.file_table[file_id].size = end] ELSE f
        lo == CopyLo(start)
    IN  Result([grown EXCEPT
                   !.file_data = StoreBytesAt(@, lo, CopyHi(start, n), data,
                                              lo - start)], n)

\* read_file (lines 242-256) when its memcpy leaves file_data and returns:
\* the bytes of the array that were copied, as runs over the buffer's
\* positions (what was copied from outside the array is not known)
read_file_wild(f, file_id, offset, size) ==
    LET file == File(f.file_table, file_id)
        n == IF ULess(file.size, UAdd(offset, size))
             THEN USub(file.size, offset) ELSE size
        start == UAdd(file.data_start, offset)
        lo == CopyLo(start)
        hi == CopyHi(start, n)
    IN  [ret |-> n,
         out |-> {Run(c.start - start, c.len, c.data, c.from) :
                     c \in UNION {Clip(r, lo, hi) : r \in f.file_data}},
         hang |-> FALSE]

\* the id, buffer, offsets and lengths of the calls: a default file;
\* offsets at, just past and far past the capacity
WideIds == {1}
WideBufs == {1}
WideOffsets == {0, MAX_FILE_SIZE, MAX_FILE_SIZE + 1, ALL_ONES}
WideSizes == {2, MAX_FILE_SIZE}

\* the call returned after a copy that left file_data: the file system takes
\* the value g
WildReturn(op, arg, ret, out, g) ==
    /\ ~fs_hung
    /\ fs_hung' = FALSE
    /\ wild_store' = TRUE
    /\ call' = Call(op, arg, ret, out)
    /\ file_table' = g.file_table
    /\ directory_table' = g.directory_table
    /\ next_file_id' = g.next_file_id
    /\ next_dir_id' = g.next_dir_id
    /\ current_directory' = g.current_directory
    /\ data_offset' = g.data_offset
    /\ file_data' = g.file_data
    /\ UNCHANGED <<memory_bitmap, next_pid, processes, current_process, kpc,
                   allocated, creations, visited, file_ids, dir_ids,
                   deleted_files, deleted_dirs, made>>

\* write_file whose copy left file_data and returned; the bytes outside the
\* array hit none of the tables, or the size field of a file entry
WildWrite(file_id, data, offset, size) ==
    LET w == write_file_wild(FsState, file_id, data, offset, size)
    IN  /\ write_file(FsState, file_id, data, offset, size).hang
        /\ \/ WildReturn("write_file", file_id, w.ret, <<data, offset, size>>,
                         w.fs)
           \/ \E hit \in WideIds :
                 WildReturn("write_file", file_id, w.ret, <<data, offset, size>>,
                            [w.fs EXCEPT !.file_table[hit].size = WildWord(data)])

WildRead(file_id, offset, size) ==
    LET r == read_file_wild(FsState, file_id, offset, size)
    IN  /\ read_file(FsState, file_id, offset, size).hang
        /\ WildReturn("read_file", file_id, r.ret,
                      <<offset, size, r.ret, r.out>>, FsState)

WriteAt(file_id, data, offset, size) ==
    \/ WriteFile(file_id, data, offset, size)
    \/ WildWrite(file_id, data, offset, size)

ReadAt(file_id, offset, size) ==
    \/ ReadFile(file_id, offset, size)
    \/ WildRead(file_id, offset, size)

NextFsWide ==
    \/ \E file_id \in WideIds, data \in WideBufs, offset \in WideOffsets,
          size \in WideSizes : WriteAt(file_id, data, offset, size)
    \/ \E file_id \in WideIds, offset \in WideOffsets, size \in WideSizes :
          ReadAt(file_id, offset, size)

SpecFsWide == InitFs /\ [][NextFsWide]_vars

\* ------------------------------------------------------ nested directories
\* create_directory, set_current_directory and get_path_string with the
\* directory ids below MaxDepth: directories inside directories.
MaxDepth == 5

NestDirectory(name) ==
    next_dir_id < MaxDepth /\ CreateDirectoryCall(name) /\ UNCHANGED made

NextFsDeep ==
    \/ \E name \in PathNames : NestDirectory(name)
    \/ \E dir_id \in 0 .. MaxDepth : SetCurrentDirectory(dir_id)
    \/ \E dir_id \in 0 .. MaxDepth - 1 : GetPathString(dir_id)

SpecFsDeep == InitFs /\ [][NextFsDeep]_vars

\* ========================================================== properties

\* C1: allocate_page never hands out an address that is still allocated (its
\* bit was clear before the call), and the set bits are exactly the 4
\* reserved pages plus the pages currently allocated.
C1_NoDoubleAllocation ==
    [][ /\ (call'.op = "allocate_page" /\ call'.ret # 0) =>
              /\ call'.ret \notin allocated
              /\ ~BitSet(memory_bitmap, (call'.ret - MEMORY_START) \div PAGE_SIZE)
        /\ SetPages(memory_bitmap') =
              (0 .. RESERVED_PAGES - 1)
              \cup {(a - MEMORY_START) \div PAGE_SIZE : a \in allocated'} ]_vars

\* page 4 is handed out again (after a free) while page 5 is still held
C1_Witness ==
    /\ call.op = "allocate_page"
    /\ call.ret = PageAddr(RESERVED_PAGES)
    /\ PageAddr(RESERVED_PAGES + 1) \in allocated

\* The lowest-indexed clear page of a bitmap, -1 when there is none.
LowestFree(bm) ==
    IF SetPages(bm) = 0 .. MAX_PAGES - 1 THEN -1
    ELSE Min((0 .. MAX_PAGES - 1) \ SetPages(bm))

\* C2: free_page(p) of an allocated page clears exactly p's bit, and the next
\* allocate_page returns p exactly when p is the lowest-indexed free page.
C2_FreeThenAllocate ==
    [][ /\ call'.op = "free_page" =>
              SetPages(memory_bitmap') =
                  SetPages(memory_bitmap)
                  \ {(call'.arg - MEMORY_START) \div PAGE_SIZE}
        /\ (call.op = "free_page" /\ call'.op = "allocate_page") =>
              /\ ~BitSet(memory_bitmap, (call.arg - MEMORY_START) \div PAGE_SIZE)
              /\ (call'.ret = call.arg) <=>
                    ((call.arg - MEMORY_START) \div PAGE_SIZE
                        = LowestFree(memory_bitmap)) ]_vars

\* page 5 was freed between pages 4 and 6 and has been handed out again
C2_Witness ==
    /\ call.op = "allocate_page"
    /\ call.ret = PageAddr(RESERVED_PAGES + 1)
    /\ PageAddr(RESERVED_PAGES) \in allocated
    /\ PageAddr(RESERVED_PAGES + 2) \in allocated

\* C3: under any allocate_page / free_page calls (free_page with any
\* address) the bits of pages 0..3 stay set and allocate_page never returns
\* one of the 4 reserved pages.
C3_ReservedForever ==
    /\ \A k \in 0 .. RESERVED_PAGES - 1 : BitSet(memory_bitmap, k)
    /\ call.op = "allocate_page" =>
          call.ret \notin {PageAddr(k) : k \in 0 .. RESERVED_PAGES - 1}

\* C4: every non-failure result of allocate_page is MEMORY_START + k*PAGE_SIZE
\* for some k in 0..1023.
C4_AddressInPool ==
    (call.op = "allocate_page" /\ call.ret # 0) =>
        /\ call.ret >= MEMORY_START
        /\ call.ret < MEMORY_START + MAX_PAGES * PAGE_SIZE
        /\ call.ret % PAGE_SIZE = 0

\* the last page of the pool has been handed out
C4_Witness ==
    /\ call.op = "allocate_page"
    /\ call.ret = MEMORY_START + (MAX_PAGES - 1) * PAGE_SIZE

\* C5: allocate_page returns 0 exactly when every bit is set, then leaves the
\* bitmap as it is; 0 is never an allocated address.
C5_ExhaustionSentinel ==
    [][ /\ call'.op = "allocate_page" =>
              /\ (call'.ret = 0) <=> (SetPages(memory_bitmap) = 0 .. MAX_PAGES - 1)
              /\ (call'.ret = 0) => (memory_bitmap' = memory_bitmap)
        /\ 0 \notin allocated' ]_vars

C5_Witness ==
    /\ call.op = "allocate_page"
    /\ call.ret = 0
    /\ \A i \in Words : memory_bitmap[i] = AllBits

\* C6: with all 10 slots holding a nonzero pid, create_process returns -1 and
\* changes neither the process table, nor next_pid, nor the bitmap.
C6_TableFull ==
    [][ ((\A i \in Slots : processes[i].pid # 0) /\ call'.op = "create_process")
        => /\ call'.ret = -1
           /\ UNCHANGED <<processes, next_pid, memory_bitmap, allocated>> ]_vars

C6_Witness ==
    /\ call.op = "create_process"
    /\ call.ret = -1
    /\ \A i \in Slots : processes[i].pid # 0

\* C7: successful create_process calls return 1, 2, 3, ... in call order, and
\* a slot has pid 0 exactly when no process was ever created in it.
C7_PidSequence ==
    /\ \A n \in 1 .. Len(creations) : creations[n][2] = n
    /\ (call.op = "create_process" /\ call.ret # -1) => call.ret > 0
    /\ \A i \in Slots :
          (processes[i].pid = 0) <=>
              ~(\E n \in 1 .. Len(creations) : creations[n][1] = i)

\* three processes exist, one of them already terminated
C7_Witness ==
    /\ Len(creations) = 3
    /\ call.op = "create_process"
    /\ call.ret = 3
    /\ \E i \in Slots : processes[i].pid # 0 /\ processes[i].state = 3

\* C8: SYS_EXIT sets the current slot's state to Terminated and reclaims
\* nothing; a slot holding a terminated process never changes again, its
\* stack page stays allocated, and at most 10 processes are ever created.
C8_ExitReclaimsNothing ==
    [][ /\ (call'.op = "syscall" /\ call'.arg = SYS_EXIT) =>
              /\ processes'[current_process].state = 3
              /\ processes' = [processes EXCEPT ![current_process].state = 3]
              /\ UNCHANGED <<memory_bitmap, next_pid, current_process>>
        /\ \A i \in Slots :
              (processes[i].pid # 0 /\ processes[i].state = 3) =>
                  /\ processes'[i] = processes[i]
                  /\ BitSet(memory_bitmap',
                            (processes[i].stack_ptr - PROCESS_STACK_SIZE
                                - MEMORY_START) \div PAGE_SIZE)
        /\ Len(creations') <= MAX_PROCESSES ]_vars

\* a process has exited, and a later create_process found the table full
C8_Witness ==
    /\ call.op = "create_process"
    /\ call.ret = -1
    /\ \E i \in Slots : processes[i].pid # 0 /\ processes[i].state = 3

\* C9: Read, Fork, Exec and unknown call numbers change no kernel state; an
\* unknown number is reported as text; Write changes nothing but emits text;
\* the kernel stays in its loop, where further calls are accepted.
C9_InertCalls ==
    [][ (call'.op = "syscall" /\ call'.arg # SYS_EXIT) =>
          /\ UNCHANGED <<processes, current_process, next_pid, memory_bitmap, kpc>>
          /\ call'.arg \in {SYS_READ, SYS_FORK, SYS_EXEC} => call'.out = <<>>
          /\ call'.arg = SYS_WRITE => call'.out[1] = "text"
          /\ call'.arg \notin SYS_WRITE .. SYS_EXEC =>
                call'.out = <<"unknown", call'.arg>>
          /\ kpc' = "loop" ]_vars

\* an unknown call number was reported while a process is running
C9_Witness ==
    /\ call.op = "syscall"
    /\ call.arg = MaxCall
    /\ call.out = <<"unknown", MaxCall>>
    /\ processes[current_process].state = 1

\* strictly increasing sequence of numbers
Increasing(q) == \A i, j \in 1 .. Len(q) : i < j => q[i] < q[j]

\* C10: the ids successful create_file calls return are strictly increasing
\* (hence unique), likewise those of create_directory, all below the table
\* sizes, and an id a delete has freed is never returned again.
C10_FreshIds ==
    [][ /\ Increasing(file_ids') /\ Increasing(dir_ids')
        /\ \A i \in 1 .. Len(file_ids') : file_ids'[i] \in 0 .. MAX_FILES - 1
        /\ \A i \in 1 .. Len(dir_ids') : dir_ids'[i] \in 1 .. MAX_DIRECTORIES - 1
        /\ (call'.op = "create_file" /\ call'.ret # ALL_ONES) =>
              /\ call'.ret \notin deleted_files
              /\ file_ids' = Append(file_ids, call'.ret)
        /\ (call'.op = "create_directory" /\ call'.ret # ALL_ONES) =>
              /\ call'.ret \notin deleted_dirs
              /\ dir_ids' = Append(dir_ids, call'.ret) ]_vars

\* a file was created after file 1 had been deleted, and a second directory
\* after the first had been deleted
C10_Witness ==
    /\ call.op = "create_file"
    /\ call.ret = 3
    /\ 1 \in deleted_files
    /\ dir_ids = <<1, 2>>
    /\ 1 \in deleted_dirs

\* ---------------------------------------------------------- file contents
\* file ids some create_file returned and no delete_file has deleted since
LiveFiles == {file_ids[i] : i \in DOMAIN file_ids} \ deleted_files

\* a buffer whose positions 0 .. n - 1 hold bytes 0 .. n - 1 of buffer `data`
HoldsPrefix(bytes, data, n) == bytes = {Run(0, n, data, 0)}

\* C11: on a live file, write_file(id, data, 0, N) with 0 < N <= MAX_FILE_SIZE
\* returns N, and the read_file(id, buf, 0, N) that follows it returns N and
\* leaves in buf exactly the N bytes written.
C11_WriteReadRoundTrip ==
    [][ ( /\ ~fs_hung /\ ~fs_hung'
          /\ call.op = "write_file" /\ call'.op = "read_file"
          /\ call.arg \in LiveFiles /\ call'.arg = call.arg
          /\ call.out[2] = 0 /\ call'.out[1] = 0
          /\ 0 < call.out[3] /\ call.out[3] <= MAX_FILE_SIZE
          /\ call'.out[2] = call.out[3] )
        => /\ call.ret = call.out[3]
           /\ call'.ret = call.out[3]
           /\ HoldsPrefix(call'.out[4], call.out[1], call.out[3]) ]_vars

\* the created file 3 was written from buffer 2 up to MAX_FILE_SIZE and the
\* read returned all MAX_FILE_SIZE bytes of buffer 2
C11_Witness ==
    /\ call.op = "read_file"
    /\ call.arg = 3
    /\ call.ret = MAX_FILE_SIZE
    /\ HoldsPrefix(call.out[4], 2, MAX_FILE_SIZE)
    /\ 3 \in LiveFiles

\* the bytes of file_data outside lo .. hi - 1
Outside(fd, lo, hi) ==
    UNION {Clip(r, 0, lo) \cup Clip(r, hi, FILE_DATA_SIZE) : r \in fd}

\* C12: on a live file, write_file(id, data, 0, N) with N > MAX_FILE_SIZE
\* returns MAX_FILE_SIZE, sets the recorded size to MAX_FILE_SIZE and stores
\* the first MAX_FILE_SIZE bytes of data and nothing else; the
\* read_file(id, buf, 0, N) that follows returns those MAX_FILE_SIZE bytes.
C12_OversizeWriteTruncated ==
    [][ /\ ( /\ ~fs_hung'
             /\ call'.op = "write_file"
             /\ call'.arg \in LiveFiles
             /\ call'.out[2] = 0
             /\ ULess(MAX_FILE_SIZE, call'.out[3]) )
           => LET start == File(file_table, call'.arg).data_start
              IN  /\ call'.ret = MAX_FILE_SIZE
                  /\ File(file_table', call'.arg).size = MAX_FILE_SIZE
                  /\ HoldsPrefix(LoadBytes(file_data', start, MAX_FILE_SIZE),
                                 call'.out[1], MAX_FILE_SIZE)
                  /\ Outside(file_data', start, start + MAX_FILE_SIZE)
                        = Outside(file_data, start, start + MAX_FILE_SIZE)
        /\ ( /\ ~fs_hung /\ ~fs_hung'
             /\ call.op = "write_file" /\ call'.op = "read_file"
             /\ call.arg \in LiveFiles /\ call'.arg = call.arg
             /\ call.out[2] = 0 /\ call'.out[1] = 0
             /\ ULess(MAX_FILE_SIZE, call.out[3])
             /\ call'.out[2] = call.out[3] )
           => /\ call'.ret = MAX_FILE_SIZE
              /\ HoldsPrefix(call'.out[4], call.out[1], MAX_FILE_SIZE) ]_vars

\* a read of MAX_FILE_SIZE + 1 bytes from the created file 3 returned
\* MAX_FILE_SIZE bytes of buffer 1
C12_Witness ==
    /\ call.op = "read_file"
    /\ call.arg = 3
    /\ call.out[2] = MAX_FILE_SIZE + 1
    /\ call.ret = MAX_FILE_SIZE
    /\ HoldsPrefix(call.out[4], 1, MAX_FILE_SIZE)
    /\ File(file_table, 3).size = MAX_FILE_SIZE

\* C16: read_file and write_file succeed on an id create_file returned and
\* nobody deleted; once delete_file(id) has succeeded they return -1 for that
\* id and change no file data and no recorded size.
C16_DeletedIdRejected ==
    [][ (~fs_hung' /\ call'.op \in {"read_file", "write_file"})
        => /\ call'.arg \in LiveFiles => call'.ret >= 0
           /\ call'.arg \in deleted_files =>
                 /\ call'.ret = -1
                 /\ file_data' = file_data
                 /\ \A i \in FileSlots :
                       File(file_table', i).size = File(file_table, i).size
      ]_vars

\* ------------------------------------------------------------- the catalog
\* directory ids create_directory returned (deleted or not)
MadeDirs == {dir_ids[i] : i \in DOMAIN dir_ids}

\* C13: delete_directory on a directory other than the root that holds at
\* least one file (its file list is not empty, or a live file names it as
\* parent) returns -2 and leaves both tables, both id counters, the current
\* directory and the file data as they were.
C13_NonEmptyDirectoryKept ==
    [][ ( /\ ~fs_hung'
          /\ call'.op = "delete_directory"
          /\ call'.arg \in MadeDirs
          /\ \/ FileList(FsState, call'.arg) # <<>>
             \/ \E i \in LiveFiles : File(file_table, i).parent_dir = call'.arg )
        => /\ call'.ret = -2
           /\ UNCHANGED <<file_table, directory_table, next_file_id,
                          next_dir_id, current_directory, data_offset,
                          file_data>> ]_vars

\* delete_directory refused directory 1, which holds the created file 3
C13_Witness ==
    /\ call.op = "delete_directory"
    /\ call.arg = 1
    /\ call.ret = -2
    /\ FileList(FsState, 1) = <<3>>
    /\ File(file_table, 3).parent_dir = 1

\* C14: right after init_filesystem the root's file list holds exactly
\* kernel.bin (0), shell.bin (1) and init.bin (2), and find_file of each of
\* the three names in directory 0 returns that file's id.
C14_DefaultFiles ==
    call = NoCall =>
        /\ LET q == FileList(FsState, 0)
           IN  {q[i] : i \in DOMAIN q} = {0, 1, 2}
        /\ find_file(FsState, KernelBin, 0) = 0
        /\ find_file(FsState, ShellBin, 0) = 1
        /\ find_file(FsState, InitBin, 0) = 2

\* list q without x
Without(q, x) == SelectSeq(q, LAMBDA y : y # x)

\* C15: delete_file(f) on a live file returns 0 and unlinks exactly f from
\* its parent's list: find_file of f's name there no longer returns f (and
\* returns 0xFFFFFFFF when no other file of the list has that name), the list
\* is one shorter, and the other files keep their order and are still found
\* by name.
C15_DeleteUnlinksExactlyOne ==
    [][ ( /\ ~fs_hung'
          /\ call'.op = "delete_file"
          /\ call'.arg \in LiveFiles )
        => LET file_id == call'.arg
               parent == File(file_table, file_id).parent_dir
               name == File(file_table, file_id).name
               before == FileList(FsState, parent)
               after == FileList(FsState', parent)
               found == find_file(FsState', name, parent)
           IN  /\ call'.ret = 0
               /\ found # file_id
               /\ (\A i \in DOMAIN before :
                      before[i] # file_id =>
                         File(file_table, before[i]).name # name)
                  => found = ALL_ONES
               /\ Len(after) = Len(before) - 1
               /\ after = Without(before, file_id)
               /\ \A i \in DOMAIN after :
                     LET g == find_file(FsState', File(file_table', after[i]).name,
                                        parent)
                     IN  /\ \E j \in DOMAIN after : after[j] = g
                         /\ File(file_table', g).name
                               = File(file_table', after[i]).name ]_vars

\* C17: in every state create and delete operations lead to, find_file(name,
\* d) returns 0xFFFFFFFF when no file with that name was ever created under
\* directory d, and find_directory(name, d) does when no directory was.
C17_NeverCreatedNotFound ==
    [][ /\ (~fs_hung' /\ call'.op = "find_file"
               /\ <<"file", call'.arg, call'.out>> \notin made)
           => call'.ret = ALL_ONES
        /\ (~fs_hung' /\ call'.op = "find_directory"
               /\ <<"dir", call'.arg, call'.out>> \notin made)
           => call'.ret = ALL_ONES ]_vars

\* directories made and not deleted, and the root
LiveDirs == (MadeDirs \ deleted_dirs) \cup {0}

\* the directories from the root's child down to dir_id, each the parent_dir
\* of the next
RECURSIVE ChainTo(_, _)
ChainTo(dir_id, fuel) ==
    IF dir_id = 0 \/ fuel = 0 THEN <<>>
    ELSE Append(ChainTo(Dir(directory_table, dir_id).parent_dir, fuel - 1),
                dir_id)

\* "/n1/n2/../nk" for the directories of chain q
RECURSIVE Joined(_)
Joined(q) ==
    IF q = <<>> THEN <<>>
    ELSE <<"/">> \o Dir(directory_table, Head(q)).name \o Joined(Tail(q))

C19_TablesFillForGood ==
    [][ /\ ( /\ ~fs_hung'
             /\ call'.op = "create_file"
             /\ Len(file_ids) >= MAX_FILES )
           => /\ call'.ret = ALL_ONES
              /\ UNCHANGED fs_vars
        /\ ( /\ ~fs_hung'
             /\ call'.op = "create_directory"
             /\ Len(dir_ids) + 1 >= MAX_DIRECTORIES )
           => /\ call'.ret = ALL_ONES
              /\ UNCHANGED fs_vars ]_vars

\* create_file failed although the last file had been deleted, with the
\* directory table full and its last directory deleted as well
C19_Witness ==
    /\ call.op = "create_file"
    /\ call.ret = ALL_ONES
    /\ MAX_FILES - 1 \in deleted_files
    /\ Len(dir_ids) + 1 = MAX_DIRECTORIES
    /\ MAX_DIRECTORIES - 1 \in deleted_dirs

\* C20: delete_directory(0) returns -1 in every state and leaves the root's
\* entry (name "/", parent 0), all lists and the counters as they were, and
\* so does delete_directory of any id that is next_dir_id or more.
C20_RootAndUnusedIdsRefused ==
    [][ ( /\ ~fs_hung'
          /\ call'.op = "delete_directory"
          /\ (call'.arg = 0 \/ call'.arg >= next_dir_id) )
        => /\ call'.ret = -1
           /\ UNCHANGED <<file_table, directory_table, next_file_id,
                          next_dir_id, current_directory, data_offset,
                          file_data>>
           /\ Dir(directory_table', 0).name = RootName
           /\ Dir(directory_table', 0).parent_dir = 0 ]_vars

\* delete_directory(0) was refused when no file was left in the root and two
\* directories had been made
C20_Witness ==
    /\ call.op = "delete_directory"
    /\ call.arg = 0
    /\ call.ret = -1
    /\ Dir(directory_table, 0).first_file = 0
    /\ Len(dir_ids) = 2

\* ------------------------------------------------------ kernel start-up
\* C21: kernel_main initializes the memory allocator, then the process
\* table, then the file system, and only then creates the first process and
\* enters the scheduler loop; create_process and allocate_page do not run
\* before that.
C21_StartupOrder ==
    /\ (creations # <<>> \/ kpc = "loop") =>
          /\ \A k \in 0 .. RESERVED_PAGES - 1 : BitSet(memory_bitmap, k)
          /\ kpc \notin {"start", "memory"}
          /\ next_dir_id >= 1
          /\ Dir(directory_table, 0).name = RootName
          /\ next_file_id >= 3
    /\ call.op \in {"create_process", "allocate_page"} => kpc = "loop"

\* ------------------------------------------------- allocator and processes
\* C22: allocate_page is first-fit: while some bit is clear it sets exactly
\* the lowest clear bit k (words in order, then the bits of the word) and
\* returns MEMORY_START + k * PAGE_SIZE, every other bit staying as it was;
\* the first allocation after init_memory returns page RESERVED_PAGES.
C22_FirstFit ==
    [][ ( /\ call'.op = "allocate_page"
          /\ LowestFree(memory_bitmap) # -1 )
        => LET k == LowestFree(memory_bitmap)
           IN  /\ call'.ret = MEMORY_START + k * PAGE_SIZE
               /\ memory_bitmap' =
                     [memory_bitmap EXCEPT ![k \div WORD_BITS] =
                                              @ \cup {k % WORD_BITS}]
               /\ memory_bitmap = init_memory => k = RESERVED_PAGES ]_vars

\* the first page of the second bitmap word was given back while every page
\* below it and the page after it were held, and has been handed out again
C22_Witness ==
    /\ call.op = "allocate_page"
    /\ call.ret = PageAddr(WORD_BITS)
    /\ \A k \in RESERVED_PAGES .. WORD_BITS + 1 : PageAddr(k) \in allocated

\* C23: create_process does not look at what allocate_page returned: with
\* the pool exhausted (allocate_page returns 0) and a slot free it succeeds,
\* returns a fresh positive pid, fills the slot in the runnable state and
\* records the stack pointer 0 + PROCESS_STACK_SIZE, so that two processes
\* created this way hold the same stack address.
C23_ExhaustedPoolStillCreates ==
    [][ ( /\ call'.op = "create_process"
          /\ PoolExhausted
          /\ \E i \in Slots : processes[i].pid = 0 )
        => LET i == Min({s \in Slots : processes[s].pid = 0})
           IN  /\ call'.ret > 0
               /\ \A s \in Slots : processes[s].pid # call'.ret
               /\ processes'[i].pid = call'.ret
               /\ processes'[i].state = 1
               /\ processes'[i].stack_ptr = 0 + PROCESS_STACK_SIZE
               /\ \A s \in Slots \ {i} : processes'[s] = processes[s]
               /\ memory_bitmap' = memory_bitmap ]_vars

\* slots 1 and 2 were filled with the pool exhausted: two pids, one stack
C23_Witness ==
    /\ call.op = "create_process"
    /\ PoolExhausted
    /\ processes[1].pid = 2 /\ processes[2].pid = 3
    /\ processes[1].stack_ptr = PROCESS_STACK_SIZE
    /\ processes[2].stack_ptr = PROCESS_STACK_SIZE
    /\ processes[1].state = 1 /\ processes[2].state = 1

C25_RoundRobin ==
    [][ /\ current_process \in Slots /\ current_process' \in Slots
        /\ call'.op = "schedule" =>
              /\ current_process' = (current_process + 1) % MAX_PROCESSES
              /\ Len(visited') = MAX_PROCESSES =>
                    /\ {visited'[i] : i \in DOMAIN visited'} = Slots
                    /\ \A i \in Slots :
                          processes[i].state = 1 =>
                             \E j \in DOMAIN visited' : visited'[j] = i
        /\ call'.op # "schedule" => current_process' = current_process ]_vars

\* a full round after which the loop selects the running shell in slot 0
\* again, most of the slots it passed being free
C25_Witness ==
    /\ call.op = "schedule"
    /\ visited = <<1, 2, 3, 4, 5, 6, 7, 8, 9, 0>>
    /\ processes[0].state = 1
    /\ processes[5].pid = 0

\* C26: the slot considered active changes only to a runnable slot, so that
\* whenever a syscall is dispatched between loop iterations current_process
\* holds a created process in state Running: SYS_EXIT marks only a created,
\* Running process as Terminated, never a free slot (pid 0) and never one
\* that is Terminated already.
C26_ActiveSlotRunnable ==
    [][ /\ (call'.op = "schedule" /\ current_process' # current_process) =>
              /\ processes[current_process'].pid # 0
              /\ processes[current_process'].state = 1
        /\ (call'.op = "syscall" /\ call'.arg = SYS_EXIT) =>
              /\ processes[current_process].pid # 0
              /\ processes[current_process].state = 1 ]_vars

\* slots holding a process
Occupied == {i \in Slots : processes[i].pid # 0}

\* C27: with pages taken only by create_process and none given back, once
\* init_memory has run the number of set bits is RESERVED_PAGES plus the
\* number of occupied slots, the occupied slots are 0 .. k - 1 with slot i
\* holding pid i + 1, and the stack pointers of occupied slots are pairwise
\* different, each the address of an allocated page plus
\* PROCESS_STACK_SIZE.
C27_PagesMatchProcesses ==
    kpc # "start" =>
        /\ Cardinality(SetPages(memory_bitmap))
              = RESERVED_PAGES + Cardinality(Occupied)
        /\ Occupied = 0 .. Cardinality(Occupied) - 1
        /\ \A i \in Occupied : processes[i].pid = i + 1
        /\ \A i, j \in Occupied :
              i # j => processes[i].stack_ptr # processes[j].stack_ptr
        /\ \A i \in Occupied :
              LET page == processes[i].stack_ptr - PROCESS_STACK_SIZE
              IN  /\ page \in allocated
                  /\ \E k \in RESERVED_PAGES .. MAX_PAGES - 1 :
                        page = PageAddr(k) /\ BitSet(memory_bitmap, k)

\* three processes hold pages 4, 5 and 6; the shell in slot 0 has exited
C27_Witness ==
    /\ call.op = "create_process"
    /\ Occupied = {0, 1, 2}
    /\ processes[0].state = 3
    /\ processes[2].stack_ptr = PageAddr(RESERVED_PAGES + 2) + PROCESS_STACK_SIZE
    /\ Cardinality(SetPages(memory_bitmap)) = RESERVED_PAGES + 3

\* ------------------------------------------------------------- file lists
\* the elements of list q
Elements(q) == {q[i] : i \in DOMAIN q}

\* C28: a create_file that returns an id f gives f the current directory as
\* parent_dir and appends f to the tail of that directory's file list, the
\* files that were on the list staying in their order before f; and every
\* file that was created and not deleted is on the list of its parent
\* directory.
C28_CreateFileAppends ==
    /\ [][ ( /\ ~fs_hung'
             /\ call'.op = "create_file"
             /\ call'.ret # ALL_ONES )
           => /\ File(file_table', call'.ret).parent_dir = current_directory
              /\ FileList(FsState', current_directory)
                    = Append(FileList(FsState, current_directory), call'.ret)
         ]_vars
    /\ [](~fs_hung =>
            \A file_id \in LiveFiles :
               file_id \in Elements(FileList(FsState,
                               File(file_table, file_id).parent_dir)))

\* list q holds no element twice
NoRepeat(q) == \A i, j \in DOMAIN q : i # j => q[i] # q[j]

\* C29: in every state, each file id on the first_file chain of a directory d
\* is a file that was created and not deleted and whose parent_dir is d; no id
\* is twice on one list, and none is on the lists of two directories.
C29_ListsHoldOwnLiveFiles ==
    \A d \in 0 .. MaxDirId :
       LET files == FileList(FsState, d)
       IN  /\ \A i \in DOMAIN files :
                 /\ files[i] \in LiveFiles
                 /\ File(file_table, files[i]).parent_dir = d
           /\ NoRepeat(files)
           /\ \A e \in 0 .. MaxDirId :
                 e # d => Elements(files) \cap Elements(FileList(FsState, e)) = {}

\* the root and directory 1 list one file each, after a file of the root was
\* deleted
C29_Witness ==
    /\ call.op = "delete_file"
    /\ call.ret = 0
    /\ Len(FileList(FsState, 0)) = 1
    /\ Len(FileList(FsState, 1)) = 1
    /\ deleted_files \cap {1, 2} # {}

\* C30: an id d that find_directory(name, p) returns, other than 0xFFFFFFFF,
\* is a directory that was made and not deleted, is named name, and has
\* parent_dir p.
C30_FindDirectoryWithinParent ==
    [][ ( /\ ~fs_hung'
          /\ call'.op = "find_directory"
          /\ call'.ret # ALL_ONES )
        => /\ call'.ret \in MadeDirs \ deleted_dirs
           /\ Dir(directory_table, call'.ret).name = call'.out
           /\ Dir(directory_table, call'.ret).parent_dir = call'.arg ]_vars

\* ------------------------------------------------------ directory chains
\* the live directories, other than dir_id itself, that name dir_id as their
\* parent_dir
ChildDirs(dir_id) ==
    {c \in LiveDirs \ {0, dir_id} : Dir(directory_table, c).parent_dir = dir_id}

\* C31: delete_directory(d) on a live directory d other than the root that
\* has a live child directory returns -2 and leaves the tables, the id
\* counters and the current directory as they were; and in every state the
\* parent_dir of a live directory is a live directory.
C31_DirectoryWithChildKept ==
    /\ [][ ( /\ ~fs_hung'
             /\ call'.op = "delete_directory"
             /\ call'.arg \in LiveDirs \ {0}
             /\ ChildDirs(call'.arg) # {} )
           => /\ call'.ret = -2
              /\ UNCHANGED <<file_table, directory_table, next_file_id,
                             next_dir_id, current_directory>> ]_vars
    /\ [](\A c \in LiveDirs \ {0} :
             Dir(directory_table, c).parent_dir \in LiveDirs)

\* the names find_directory is asked for: the stored directory names and
\* the empty name of a cleared entry
StoredDirNames == {CopyName(name) : name \in DirNames} \cup {<<>>}

\* C32: a delete_directory(d) of a live directory that returns 0 leaves no
\* entry whose next_dir is d, no find_directory call then returns d, and
\* every other live directory that was on the chain of next_dir links from
\* the root before the call is on it after the call.
C32_DeleteDirectoryUnlinks ==
    [][ ( /\ ~fs_hung'
          /\ call'.op = "delete_directory"
          /\ call'.arg \in LiveDirs
          /\ call'.ret = 0 )
        => LET d == call'.arg
           IN  /\ \A e \in DOMAIN directory_table' :
                     Dir(directory_table', e).next_dir # d
               /\ \A name \in StoredDirNames, p \in 0 .. MaxDirId :
                     find_directory(FsState', name, p) # d
               /\ \A e \in (Elements(DirList(FsState, 0)) \cap LiveDirs) \ {d} :
                     e \in Elements(DirList(FsState', 0)) ]_vars

\* ------------------------------------------------- offsets and capacities
\* max(0, min(size, limit - offset)) for uint32_t offset and size
Clamped(limit, offset, size) ==
    IF ~ULess(offset, limit) THEN 0
    ELSE IF ULess(size, limit - offset) THEN size ELSE limit - offset

\* C33: read_file(id, buf, offset, size) on a live file returns
\* max(0, min(size, recorded size - offset)) and puts exactly that many bytes
\* in buf, the bytes at offset of the file's own partition; a read at or past
\* the recorded size returns 0 and copies nothing.
C33_ReadClampsToSize ==
    [][ (call'.op = "read_file" /\ call'.arg \in LiveFiles)
        => LET file == File(file_table, call'.arg)
               offset == call'.out[1]
               n == Clamped(file.size, offset, call'.out[2])
           IN  /\ ~fs_hung'
               /\ wild_store' = wild_store
               /\ call'.ret = n
               /\ call'.out[4]
                     = LoadBytes(file_data, call'.arg * MAX_FILE_SIZE + offset, n)
               /\ ~ULess(offset, file.size) => call'.out[4] = {} ]_vars

\* the bytes of file_data outside file_id's partition
OutsidePartition(fd, file_id) ==
    UNION {Clip(r, 0, file_id * MAX_FILE_SIZE)
              \cup Clip(r, (file_id + 1) * MAX_FILE_SIZE, FILE_DATA_SIZE) :
           r \in fd}

\* C34: write_file(id, data, offset, size) on a live file returns
\* max(0, min(size, MAX_FILE_SIZE - offset)), stores that many bytes of data
\* at offset of the file's partition and changes no byte outside the
\* partition; with offset >= MAX_FILE_SIZE it returns 0 and stores nothing.
C34_WriteClampsToCapacity ==
    [][ (call'.op = "write_file" /\ call'.arg \in LiveFiles)
        => LET offset == call'.out[2]
               n == Clamped(MAX_FILE_SIZE, offset, call'.out[3])
               part == call'.arg * MAX_FILE_SIZE
           IN  /\ ~fs_hung'
               /\ wild_store' = wild_store
               /\ call'.ret = n
               /\ file_data' = StoreBytesAt(file_data, part + offset,
                                            part + offset + n, call'.out[1], 0)
               /\ OutsidePartition(file_data', call'.arg)
                     = OutsidePartition(file_data, call'.arg)
               /\ ~ULess(offset, MAX_FILE_SIZE) => file_data' = file_data ]_vars

\* file ids create_file returned (deleted or not)
MadeFiles == {file_ids[i] : i \in DOMAIN file_ids}

\* what read_file(file_id, buf, 0, MAX_FILE_SIZE) gives in file system f
WholeFile(f, file_id) == read_file(f, file_id, 0, MAX_FILE_SIZE)

\* C35: every id create_file returned keeps data_start = id * MAX_FILE_SIZE
\* for good, also once the file is deleted; and a write_file through one id
\* leaves what read_file returns through every other id as it was.
C35_PartitionIsolation ==
    /\ [](\A file_id \in MadeFiles :
             File(file_table, file_id).data_start = file_id * MAX_FILE_SIZE)
    /\ [][ (~fs_hung' /\ call'.op = "write_file" /\ call'.arg \in MadeFiles)
           => \A other \in MadeFiles \ {call'.arg} :
                 WholeFile(FsState', other) = WholeFile(FsState, other) ]_vars

C37_CurrentDirectoryLive ==
    /\ [][ (call'.op = "set_current_directory"
               /\ ~ULess(call'.arg, next_dir_id))
           => current_directory' = current_directory ]_vars
    /\ [](current_directory \in LiveDirs)
    /\ [][ ( /\ ~fs_hung'
             /\ call'.op \in {"create_file", "create_directory"}
             /\ call'.ret # ALL_ONES )
           => current_directory \in LiveDirs ]_vars

\* a name no file and no directory has: a lookup of it walks a whole list
NoSuchName == <<"?">>

\* C38: in every state the ids along every next_file chain and every
\* next_dir chain strictly increase and the parent_dir of every directory but
\* the root is smaller than its id; no list walk of create_file,
\* create_directory, delete_file or delete_directory has run forever, and
\* the walks of find_file, find_directory and get_path_string end.
C38_ChainsAcyclic ==
    /\ \A file_id \in DOMAIN file_table :
          \/ File(file_table, file_id).next_file = 0
          \/ File(file_table, file_id).next_file > file_id
    /\ \A dir_id \in DOMAIN directory_table :
          /\ \/ Dir(directory_table, dir_id).next_dir = 0
             \/ Dir(directory_table, dir_id).next_dir > dir_id
          /\ dir_id # 0 => Dir(directory_table, dir_id).parent_dir < dir_id
    /\ ~fs_hung
    /\ \A dir_id \in 0 .. MaxDirId :
          /\ find_file(FsState, NoSuchName, dir_id) = ALL_ONES
          /\ find_directory(FsState, NoSuchName, dir_id) = ALL_ONES
          /\ ~get_path_string(FsState, dir_id).hang

\* after creates and a delete the root's lists are 1 -> 3 and 1 -> 2, and
\* directory 2 lies in directory 1
C38_Witness ==
    /\ call.op = "delete_file"
    /\ call.ret = 0
    /\ FileList(FsState, 0) = <<1, 3>>
    /\ DirList(FsState, 0) = <<1, 2>>
    /\ Dir(directory_table, 2).parent_dir = 1

\* C39: for every directory made, the path from the root, "/name" for each
\* directory of its parent chain, is at most MAX_PATH_LENGTH - 1 characters
\* long, so that get_path_string returns, and returns a string that fits its
\* MAX_PATH_LENGTH byte buffers together with the closing NUL.
C39_PathFitsBuffer ==
    /\ [](\A dir_id \in MadeDirs :
             Len(Joined(ChainTo(dir_id, MAX_DIRECTORIES))) <= MAX_PATH_LENGTH - 1)
    /\ [][ call'.op = "get_path_string"
           => /\ ~fs_hung'
              /\ Len(call'.out) <= MAX_PATH_LENGTH - 1 ]_vars

====
